---- MODULE Spec2Model ----
(***************************************************************************)
(* Consent banner lifecycle engine of gsminfinity:                         *)
(*   static/js/consent-banner-loader.js  (loader, sanitizer, toasts)       *)
(*   static/js/consent.js                (server-event bridge)             *)
(*                                                                         *)
(* DOM trees are flat pre-order forests: a sequence of nodes, node i       *)
(* naming its parent by index (0 is the container: a DocumentFragment, a   *)
(* detached root element's inside, or document.body).  Document order is   *)
(* index order.                                                            *)
(***************************************************************************)
EXTENDS Integers, Sequences, FiniteSets, TLC

VARIABLES
    spc,        \* sanitizer harness: position ("in", "once", "twice")
    sIn,        \* sanitizer harness: the parsed fragment handed to sanitizeFragment
    sOnce,      \* sanitizer harness: the fragment after one sanitizeFragment
    sTwice,     \* sanitizer harness: the fragment after a second sanitizeFragment
    cfg,        \* CONFIG: the ids the loader resolved (lines 33-69)
    cookie,     \* document.cookie
    doc,        \* the live document: the forest under document.body
    loaded,     \* window.__CONSENT_BANNER_LOADER_LOADED__
    host,       \* window.bootstrap.Toast: "absent", "present", "throws"
    lc,         \* the controller: "unloaded", "scheduled", "fetching", "settled"
    net,        \* requests in flight
    sent,       \* every request handed to fetch, in order
    armed,      \* the debounce timer of line 446 is pending
    quiet,      \* ms since the debounce timer was last (re)started
    gen,        \* number of fragments parsed so far
    used,       \* events spent, per kind (bounds the exploration)
    hist,       \* history: the current burst of changes, the markup last mounted
    last        \* what the last handler did (observation record)

sanVars == <<spc, sIn, sOnce, sTwice>>
lifeVars ==
    <<cfg, cookie, doc, loaded, host, lc, net, sent, armed, quiet, gen, used, hist, last>>
vars ==
    <<spc, sIn, sOnce, sTwice,
      cfg, cookie, doc, loaded, host, lc, net, sent, armed, quiet, gen, used, hist,
      last>>

(***************************************************************************)
(* Nodes.  attrs is a set of <<name, value>> pairs (names unique).         *)
(* att is the _attached expando, nl the number of listeners the widget has *)
(* bound and on what they do, chk the checked property, tmr the delay of   *)
(* the removal timer pending for the node (0: none).  gen (the parse or    *)
(* createElement that made the node; 0: the server-rendered page) and ix   *)
(* (its index there) are the node's identity.                              *)
(***************************************************************************)
NoAttr == ""

Mk(tag, par, attrs) ==
    [tag |-> tag, par |-> par, attrs |-> attrs,
     att |-> FALSE, nl |-> 0, on |-> "", chk |-> FALSE, tmr |-> 0, gen |-> 0, ix |-> 0]

HasAttr(n, a) == \E p \in n.attrs : p[1] = a

Attr(n, a) == IF HasAttr(n, a) THEN (CHOOSE p \in n.attrs : p[1] = a)[2] ELSE NoAttr

IsElement(n) == n.tag # "#text"

RECURSIVE IsUnder(_, _, _)
\* a is i or an ancestor of i (Node.contains)
IsUnder(f, i, a) ==
    IF i = a THEN TRUE
    ELSE IF i = 0 THEN FALSE
    ELSE IsUnder(f, f[i].par, a)

\* the strict descendants of a (a = 0: every node)
Descendants(f, a) == {i \in 1..Len(f) : i # a /\ IsUnder(f, i, a)}

\* the nodes of the subtrees rooted at the nodes of R
Closure(f, R) == {i \in 1..Len(f) : \E r \in R : IsUnder(f, i, r)}

\* removeChild / Element.remove of every subtree rooted in R
RemoveNodes(f, R) ==
    LET S == Closure(f, R)
        NewIdx(k) == Cardinality({j \in 1..k : j \notin S})
        Old(n) == CHOOSE k \in 1..Len(f) : k \notin S /\ NewIdx(k) = n
    IN  [n \in 1..(Len(f) - Cardinality(S)) |->
            [f[Old(n)] EXCEPT !.par = NewIdx(f[Old(n)].par)]]

(***************************************************************************)
(* Fragment sanitizer, consent-banner-loader.js:159-213                    *)
(***************************************************************************)
ALLOWED_TAGS ==
    {"DIV", "P", "SPAN", "BUTTON", "A", "UL", "LI", "INPUT", "LABEL",
     "SECTION", "ARTICLE", "FORM"}

\* /^on/i over the attribute names of the model
OnNames == {"onclick", "onerror", "onsubmit"}

\* /^(href|src)$/i over the attribute names of the model
UrlNames == {"href", "src"}

\* /^\s*javascript:/i and /^\s*data:text\/html/i over the values of the model
ScriptUrls ==
    {"javascript:alert(1)", " JavaScript:alert(1)", "data:text/html,<b>"}

\* Listed form-associated elements: a form exposes them as named properties
ListedTags ==
    {"INPUT", "BUTTON", "SELECT", "TEXTAREA", "FIELDSET", "OBJECT", "OUTPUT"}

RECURSIVE FormOwner(_, _)
\* the nearest ancestor form of node i (0: none)
FormOwner(f, i) ==
    LET p == f[i].par
    IN  IF p = 0 THEN 0
        ELSE IF f[p].tag = "FORM" THEN p
        ELSE FormOwner(f, p)

\* el[prop] on a form resolves to a control it owns whose name or id is prop
\* (HTMLFormElement's named properties shadow the built-in ones)
Clobbered(f, i, prop) ==
    /\ f[i].tag = "FORM"
    /\ \E j \in 1..Len(f) :
          /\ f[j].tag \in ListedTags
          /\ FormOwner(f, j) = i
          /\ (Attr(f[j], "name") = prop \/ Attr(f[j], "id") = prop)

\* the attributes the loop of lines 192-208 removes from an element
BadAttrs(n) ==
    {p \in n.attrs :
        \/ p[1] \in OnNames
        \/ (p[1] \in UrlNames /\ p[2] \in ScriptUrls)}

\* One iteration of the forEach callback of lines 184-209 on element i.
\* st.f carries the attribute changes, st.rm the elements removed so far,
\* st.thrown whether an exception has left the forEach (caught at line 210).
SanitizeElement(st, i) ==
    LET f == st.f
        allowed == ~Clobbered(f, i, "tagName") /\ f[i].tag \in ALLOWED_TAGS
    IN  IF st.thrown \/ ~IsElement(f[i]) THEN st
        ELSE IF ~allowed
        THEN IF Clobbered(f, i, "remove")
             THEN [st EXCEPT !.thrown = TRUE]
             ELSE [st EXCEPT !.rm = @ \cup {i}]
        ELSE IF Clobbered(f, i, "attributes")
        THEN st     \* el.attributes.length is undefined: the loop body never runs
        ELSE IF BadAttrs(f[i]) = {} THEN st
        ELSE IF Clobbered(f, i, "removeAttribute")
        THEN [st EXCEPT !.thrown = TRUE]
        ELSE [st EXCEPT !.f[i].attrs = @ \ BadAttrs(f[i])]

RECURSIVE SanitizeFrom(_, _, _)
\* the forEach of line 184 over the snapshot list, elements i..Len in document order
SanitizeFrom(st, i, root) ==
    IF i > Len(st.f) THEN st
    ELSE SanitizeFrom(
            IF IsUnder(st.f, i, root) /\ i # root THEN SanitizeElement(st, i) ELSE st,
            i + 1, root)

\* sanitizeFragment(root) where root is node `root` of f (0: the fragment itself)
SanitizeUnder(f, root) ==
    LET scripts == {i \in Descendants(f, root) : f[i].tag = "SCRIPT"}
        f1 == RemoveNodes(f, scripts)
        root1 == root - Cardinality({j \in Closure(f, scripts) : j < root})
        st == SanitizeFrom([f |-> f1, rm |-> {}, thrown |-> FALSE], 1, root1)
    IN  RemoveNodes(st.f, st.rm)

sanitizeFragment(frag) == SanitizeUnder(frag, 0)

(***************************************************************************)
(* Forest surgery                                                          *)
(***************************************************************************)
\* the index node k has after RemoveNodes(f, R) (k itself not removed; 0 stays 0)
IndexAfter(f, R, k) == Cardinality({j \in 1..k : j \notin Closure(f, R)})

\* the last node of the subtree of p (p itself when childless; 0: the whole forest)
SubtreeEnd(f, p) ==
    IF p = 0 THEN Len(f)
    ELSE CHOOSE e \in Closure(f, {p}) : \A j \in Closure(f, {p}) : j <= e

\* the forest g inserted into f right after position pos, its top-level nodes
\* becoming children of p
InsertAt(f, p, pos, g) ==
    LET shift(q) == IF q > pos THEN q + Len(g) ELSE q
    IN  [n \in 1..(Len(f) + Len(g)) |->
            IF n <= pos THEN f[n]
            ELSE IF n <= pos + Len(g)
            THEN [g[n - pos] EXCEPT
                    !.par = IF g[n - pos].par = 0 THEN p ELSE g[n - pos].par + pos]
            ELSE [f[n - Len(g)] EXCEPT !.par = shift(f[n - Len(g)].par)]]

\* parent.appendChild(g)
AppendChildren(f, p, g) == InsertAt(f, p, SubtreeEnd(f, p), g)

\* the children of p
Children(f, p) == {i \in 1..Len(f) : f[i].par = p}

\* document.getElementById(id): the first element in document order (0: null)
ElementById(f, id) ==
    LET hits == {i \in 1..Len(f) : IsElement(f[i]) /\ Attr(f[i], "id") = id}
    IN  IF hits = {} THEN 0 ELSE CHOOSE i \in hits : \A j \in hits : i <= j

\* the subtree of node r as a forest of its own (r its only top-level node),
\* reduced to what Node.isEqualNode compares: tags, attributes, children
Shape(f, r) ==
    LET S == Closure(f, {r})
        n == Cardinality(S)
    IN  [k \in 1..n |->
            [tag |-> f[r + k - 1].tag,
             par |-> IF k = 1 THEN 0 ELSE f[r + k - 1].par - r + 1,
             attrs |-> f[r + k - 1].attrs]]

\* a.isEqualNode(b), a in forest f and b in forest g
isEqualNode(f, a, g, b) == Shape(f, a) = Shape(g, b)

(***************************************************************************)
(* Runtime configuration, lines 16-73                                      *)
(***************************************************************************)
DEFAULTS ==
    [bannerSlotId |-> "consent-banner-slot",
     bannerId |-> "consent-banner",
     toastsId |-> "app-toasts"]

\* window.CONSENT_CONFIG as pages may set it: absent, or overriding the ids
Overrides ==
    { [set |-> {}, bannerSlotId |-> "", bannerId |-> ""],
      [set |-> {"bannerId", "bannerSlotId"},
       bannerSlotId |-> "cmp-slot", bannerId |-> "cmp-banner"] }

\* CONFIG and the constants of lines 65-69
ResolveConfig(o) ==
    [bannerSlotId |-> IF "bannerSlotId" \in o.set /\ o.bannerSlotId # ""
                      THEN o.bannerSlotId ELSE DEFAULTS.bannerSlotId,
     bannerId |-> IF "bannerId" \in o.set /\ o.bannerId # ""
                  THEN o.bannerId ELSE DEFAULTS.bannerId,
     toastsId |-> DEFAULTS.toastsId]

(***************************************************************************)
(* Texts: cookie values, response bodies, header values.  A text is its    *)
(* characters s together with html, the nodes the HTML parser makes of s.  *)
(***************************************************************************)
Text(s, html) == [s |-> s, html |-> html]

TextNode == Mk("#text", 0, {})

\* JSON.parse over the texts of the model.  ok: the text is valid JSON;
\* obj: the value is an object; message: its "message" member ("" when absent
\* or falsy); truthy: some own member is truthy; remove: its
\* "removeConsentBanner" member is truthy; toast: its "showToast" member
\* is an object.
NotJson == [ok |-> FALSE, obj |-> FALSE, message |-> "", truthy |-> FALSE,
            remove |-> FALSE, toast |-> FALSE]

JsonObj(message, truthy, remove, toast) ==
    [ok |-> TRUE, obj |-> TRUE, message |-> message, truthy |-> truthy,
     remove |-> remove, toast |-> toast]

JSON_parse(s) ==
    CASE s = "{\"message\":\"Saved\"}" -> JsonObj("Saved", TRUE, FALSE, FALSE)
      [] s = "{\"message\":\"\"}" -> JsonObj("", FALSE, FALSE, FALSE)
      [] s = "{}" -> JsonObj("", FALSE, FALSE, FALSE)
      [] s = "{\"analytics\":true}" -> JsonObj("", TRUE, FALSE, FALSE)
      [] s = "{\"analytics\":false}" -> JsonObj("", FALSE, FALSE, FALSE)
      [] s = "{\"removeConsentBanner\":true}" -> JsonObj("", TRUE, TRUE, FALSE)
      [] s = "{\"removeConsentBanner\":false}" -> JsonObj("", FALSE, FALSE, FALSE)
      [] s = "{\"showToast\":{\"html\":TOAST}}" -> JsonObj("", TRUE, FALSE, TRUE)
      [] s = "{\"removeConsentBanner\":true,\"showToast\":{\"html\":TOAST}}"
            -> JsonObj("", TRUE, TRUE, TRUE)
      [] s = "{\"analytics\":true,\"ads\":true}" -> JsonObj("", TRUE, FALSE, FALSE)
      [] s = "{\"analytics\":true,\"ads\":false}" -> JsonObj("", TRUE, FALSE, FALSE)
      [] s = "{\"analytics\":false,\"ads\":true}" -> JsonObj("", TRUE, FALSE, FALSE)
      [] s = "{\"analytics\":false,\"ads\":false}" -> JsonObj("", FALSE, FALSE, FALSE)
      [] s = "null" -> [NotJson EXCEPT !.ok = TRUE]
      [] s = "0" -> [NotJson EXCEPT !.ok = TRUE]
      [] s = "false" -> [NotJson EXCEPT !.ok = TRUE]
      [] s = "1" -> [NotJson EXCEPT !.ok = TRUE]
      [] s = "true" -> [NotJson EXCEPT !.ok = TRUE]
      [] OTHER -> NotJson

\* !s || !s.trim()
IsBlank(s) == s \in {"", " "}

(***************************************************************************)
(* Cookie store, lines 78-116                                              *)
(***************************************************************************)
\* document.cookie is a sequence of <<name, raw value>> pairs
CONSENT_COOKIE_NAME == "consent_status"

NoCookie == "<null>"

Malformed == "%E0%A4%A"

\* decodeURIComponent over the raw values of the model (Malformed throws)
decodeURIComponent(raw) ==
    CASE raw = "%7B%22analytics%22%3Atrue%7D" -> "{\"analytics\":true}"
      [] raw = "%7B%22analytics%22%3Afalse%7D" -> "{\"analytics\":false}"
      [] raw = "%7B%22analytics%22%3Atrue%2C%22ads%22%3Atrue%7D"
            -> "{\"analytics\":true,\"ads\":true}"
      [] raw = "%7B%22analytics%22%3Atrue%2C%22ads%22%3Afalse%7D"
            -> "{\"analytics\":true,\"ads\":false}"
      [] raw = "%7B%22analytics%22%3Afalse%2C%22ads%22%3Atrue%7D"
            -> "{\"analytics\":false,\"ads\":true}"
      [] raw = "%7B%22analytics%22%3Afalse%2C%22ads%22%3Afalse%7D"
            -> "{\"analytics\":false,\"ads\":false}"
      [] raw = "%7B%7D" -> "{}"
      [] OTHER -> raw

RECURSIVE getCookieFrom(_, _, _)
getCookieFrom(jar, name, i) ==
    IF i > Len(jar) THEN NoCookie
    ELSE IF jar[i][1] = name
    THEN (IF jar[i][2] = Malformed THEN NoCookie ELSE decodeURIComponent(jar[i][2]))
    ELSE getCookieFrom(jar, name, i + 1)

\* getCookie(name): null is NoCookie
getCookie(jar, name) ==
    IF name = "" \/ jar = << >> THEN NoCookie ELSE getCookieFrom(jar, name, 1)

\* a mutant of hasConsentCookie: any mapping counts, its members unread
hasConsentCookie_AnyMapping(jar) ==
    LET v == getCookie(jar, CONSENT_COOKIE_NAME)
    IN  IF v = NoCookie \/ v = "" THEN FALSE
        ELSE IF v = "1" \/ v = "true" THEN TRUE
        ELSE JSON_parse(v).ok /\ JSON_parse(v).obj

hasConsentCookie(jar) ==
    LET v == getCookie(jar, CONSENT_COOKIE_NAME)
    IN  IF v = NoCookie \/ v = "" THEN FALSE
        ELSE IF v = "1" \/ v = "true" THEN TRUE
        ELSE JSON_parse(v).ok /\ JSON_parse(v).obj /\ JSON_parse(v).truthy

(***************************************************************************)
(* DOM helpers, lines 218-253                                              *)
(***************************************************************************)
\* ensureSlot(): the document and the slot's index (0: document.body, when the
\* parent of an existing banner is adopted and that parent is the body)
ensureSlot(d, c, g) ==
    LET byId == ElementById(d, c.bannerSlotId)
        banner == ElementById(d, c.bannerId)
    IN  IF byId # 0 THEN [d |-> d, slot |-> byId]
        ELSE IF banner # 0 THEN [d |-> d, slot |-> d[banner].par]
        ELSE [d |-> Append(d, [Mk("DIV", 0, {<<"id", c.bannerSlotId>>})
                                  EXCEPT !.gen = g, !.ix = 1]),
              slot |-> Len(d) + 1]

\* removeBanner() without the hasChildNodes() test of line 247
removeBanner_SlotAlways(d, c) ==
    LET banner == ElementById(d, c.bannerId)
        d1 == IF banner # 0 THEN RemoveNodes(d, {banner}) ELSE d
        slot == ElementById(d1, c.bannerSlotId)
    IN  IF slot # 0 THEN RemoveNodes(d1, {slot}) ELSE d1

\* a mutant of removeBanner: the emptied slot is left in the document
removeBanner_KeepsSlot(d, c) ==
    LET banner == ElementById(d, c.bannerId)
    IN  IF banner # 0 THEN RemoveNodes(d, {banner}) ELSE d

\* removeBanner(), lines 241-253
removeBanner(d, c) ==
    LET banner == ElementById(d, c.bannerId)
        d1 == IF banner # 0 THEN RemoveNodes(d, {banner}) ELSE d
        slot == ElementById(d1, c.bannerSlotId)
    IN  IF slot # 0 /\ Children(d1, slot) = {} THEN RemoveNodes(d1, {slot}) ELSE d1

(***************************************************************************)
(* Parsing: template.innerHTML / div.innerHTML / insertAdjacentHTML        *)
(***************************************************************************)
\* the nodes of parse number g
Stamp(f, g) == [n \in 1..Len(f) |-> [f[n] EXCEPT !.gen = g, !.ix = n]]

RECURSIVE Trim(_)
\* html.trim(): leading and trailing white space makes no text node
Trim(f) ==
    IF f = << >> THEN f
    ELSE IF f[1].tag = "#text" THEN Trim(RemoveNodes(f, {1}))
    ELSE IF f[Len(f)].tag = "#text" /\ f[Len(f)].par = 0
    THEN Trim(RemoveNodes(f, {Len(f)}))
    ELSE f

\* node r of f with its subtree, as a forest of its own (cloneNode(true))
Subtree(f, r) ==
    [k \in 1..Cardinality(Closure(f, {r})) |->
        [f[r + k - 1] EXCEPT !.par = IF k = 1 THEN 0 ELSE f[r + k - 1].par - r + 1]]

\* fragment.firstElementChild (0: null)
FirstElementChild(f) ==
    LET tops == {i \in 1..Len(f) : f[i].par = 0 /\ IsElement(f[i])}
    IN  IF tops = {} THEN 0 ELSE CHOOSE i \in tops : \A j \in tops : i <= j

(***************************************************************************)
(* Handler wiring, lines 378-457                                           *)
(***************************************************************************)
\* the first node of S in document order (0: none)
First(S) == IF S = {} THEN 0 ELSE CHOOSE i \in S : \A j \in S : i <= j

\* pickAction(root, name)
pickAction(d, root, name) ==
    LET inside == Descendants(d, root)
        byAction == {i \in inside : Attr(d[i], "data-consent-action") = name}
        byHx == {i \in inside : Attr(d[i], "data-hx-action") = name}
        byId == {i \in inside : IsElement(d[i]) /\ Attr(d[i], "id") = name}
    IN  IF byAction # {} THEN First(byAction)
        ELSE IF byHx # {} THEN First(byHx)
        ELSE First(byId)

\* the checkboxes of lines 433-438 and 528-533
GranularCheckboxes(d, banner) ==
    LET boxes == {i \in Descendants(d, banner) :
                    d[i].tag = "INPUT" /\ Attr(d[i], "type") = "checkbox"}
        slugged == {i \in boxes : HasAttr(d[i], "data-consent-slug")}
    IN  IF slugged # {} THEN slugged ELSE boxes

\* a mutant of Wire: addEventListener without the _attached guard
Wire_Unguarded(d, i, role) ==
    IF i = 0 THEN d
    ELSE [d EXCEPT ![i].att = TRUE, ![i].nl = @ + 1, ![i].on = role]

\* addEventListener behind the _attached guard
Wire(d, i, role) ==
    IF i = 0 \/ d[i].att THEN d
    ELSE [d EXCEPT ![i].att = TRUE, ![i].nl = @ + 1, ![i].on = role]

WireBoxes(d, S) ==
    [n \in 1..Len(d) |-> IF n \in S THEN Wire(d, n, "change")[n] ELSE d[n]]

attachHandlers(d, c) ==
    LET banner == ElementById(d, c.bannerId)
        marked == [d EXCEPT ![banner].attrs = @ \cup {<<"data-handlers-attached", "1">>}]
        d1 == Wire(marked, pickAction(marked, banner, "accept-all"), "accept-all")
        d2 == Wire(d1, pickAction(d1, banner, "reject-all"), "reject-all")
        d3 == Wire(d2, pickAction(d2, banner, "close"), "close")
    IN  IF banner = 0 THEN d
        ELSE IF Attr(d[banner], "data-handlers-attached") = "1" THEN d
        ELSE WireBoxes(d3, GranularCheckboxes(d3, banner))

(***************************************************************************)
(* Render, lines 258-291                                                   *)
(***************************************************************************)
\* lines 265-269: the template's content as parse number g, sanitized
RenderFragment(html, g) == sanitizeFragment(Stamp(Trim(html.html), g))

\* a mutant of renderBanner: the fragment is appended to a slot not cleared
renderBanner_Appends(d, c, html, g) ==
    LET es == ensureSlot(d, c, g + 1)
        d0 == es.d
        frag == RenderFragment(html, g)
        newBanner == FirstElementChild(frag)
        oldBanner == ElementById(d0, c.bannerId)
        both == oldBanner # 0 /\ newBanner # 0
        d1 == IF both THEN RemoveNodes(d0, {oldBanner}) ELSE d0
        slot == IF both THEN IndexAfter(d0, {oldBanner}, es.slot) ELSE es.slot
        d3 == AppendChildren(d1, slot, frag)
    IN  IF html.s = "" THEN d
        ELSE IF both /\ isEqualNode(d0, oldBanner, frag, newBanner) THEN d0
        ELSE attachHandlers(d3, c)

\* renderBanner(html): g is the number of this parse (g + 1 that of the slot,
\* if one is created)
renderBanner(d, c, html, g) ==
    LET es == ensureSlot(d, c, g + 1)
        d0 == es.d
        frag == RenderFragment(html, g)
        newBanner == FirstElementChild(frag)
        oldBanner == ElementById(d0, c.bannerId)
        both == oldBanner # 0 /\ newBanner # 0
        d1 == IF both THEN RemoveNodes(d0, {oldBanner}) ELSE d0
        slot == IF both THEN IndexAfter(d0, {oldBanner}, es.slot) ELSE es.slot
        d2 == RemoveNodes(d1, Children(d1, slot))
        d3 == AppendChildren(d2, slot, frag)
    IN  IF html.s = "" THEN d
        ELSE IF both /\ isEqualNode(d0, oldBanner, frag, newBanner) THEN d0
        ELSE attachHandlers(d3, c)

(***************************************************************************)
(* Toasts, lines 296-373                                                   *)
(***************************************************************************)
\* ensureToastsArea(): the document and the area's index
ensureToastsArea(d, c, g) ==
    LET area == ElementById(d, c.toastsId)
    IN  IF area # 0 THEN [d |-> d, area |-> area]
        ELSE [d |-> Append(d, [Mk("DIV", 0, {<<"id", c.toastsId>>})
                                  EXCEPT !.gen = g, !.ix = 1]),
              area |-> Len(d) + 1]

ToastClass == "toast show bg-dark text-white p-3 mb-2 rounded shadow-lg"

\* class tokens of the class values of the model
HasClass(n, cls) ==
    CASE cls = "toast" -> Attr(n, "class") \in {"toast", ToastClass}
      [] cls = "toast-body" -> Attr(n, "class") = "toast-body"
      [] OTHER -> FALSE

\* the delay of the removal timers of lines 339-349 and 367-371
TOAST_MS == 3500

\* a mutant of showToastMessage: the entry is appended and no removal scheduled
showToastMessage_NoTimer(d, c, msg, g) ==
    LET ea == ensureToastsArea(d, c, g + 1)
        t == [Mk("DIV", 0, {<<"class", ToastClass>>, <<"textContent", msg>>})
                EXCEPT !.gen = g, !.ix = 1]
    IN  IF msg = "" THEN d ELSE AppendChildren(ea.d, ea.area, <<t>>)

\* showToastMessage(msg); g and g + 1 number the elements it creates; the
\* setTimeout of lines 367-371 is the entry's tmr
showToastMessage(d, c, msg, g) ==
    LET ea == ensureToastsArea(d, c, g + 1)
        t == [Mk("DIV", 0, {<<"class", ToastClass>>, <<"textContent", msg>>})
                EXCEPT !.gen = g, !.ix = 1, !.tmr = TOAST_MS]
    IN  IF msg = "" THEN d ELSE AppendChildren(ea.d, ea.area, <<t>>)

\* tmp.querySelector(".toast") || tmp.querySelector(".toast-body") (0: null)
ToastNode(tmp) ==
    LET toasts == {i \in 1..Len(tmp) : IsElement(tmp[i]) /\ HasClass(tmp[i], "toast")}
        bodies == {i \in 1..Len(tmp) : IsElement(tmp[i]) /\ HasClass(tmp[i], "toast-body")}
    IN  IF toasts # {} THEN First(toasts) ELSE First(bodies)

\* toastNode.cloneNode(true) of parse number g
ToastClone(html, g) == Subtree(Stamp(html.html, g), ToastNode(Stamp(html.html, g)))

\* lines 333-349: the entry is shown by the host's toast library when there
\* is one, and otherwise, or when the library throws, removed by a timer
Shown(toast) ==
    IF host = "present" \/ toast = << >> THEN toast
    ELSE [toast EXCEPT ![1].tmr = TOAST_MS]

\* injectToastFromHtml(html); g numbers the parse, g + 1 the area if created
injectToastFromHtml(d, c, html, g) ==
    LET toast == SanitizeUnder(ToastClone(html, g), 1)
        ea == ensureToastsArea(d, c, g + 1)
    IN  IF html.s = "" THEN d
        ELSE IF ToastNode(html.html) = 0 THEN d
        ELSE AppendChildren(ea.d, ea.area, Shown(toast))

\* the entries of the toast container
ToastEntries(d, c) ==
    IF ElementById(d, c.toastsId) = 0 THEN {}
    ELSE Children(d, ElementById(d, c.toastsId))

(***************************************************************************)
(* Server-event bridge, consent.js                                         *)
(***************************************************************************)
onRemoveBanner(d) ==
    LET banner == ElementById(d, "consent-banner")
        d1 == IF banner # 0 THEN RemoveNodes(d, {banner}) ELSE d
        slot == ElementById(d1, "consent-banner-slot")
    IN  IF slot # 0 /\ Children(d1, slot) = {} THEN RemoveNodes(d1, {slot}) ELSE d1

\* onShowToast({detail: {html}}); g numbers the parse
onShowToast(d, html, g) ==
    LET global == ElementById(d, "global-toasts")
        container == IF global # 0 THEN global ELSE ElementById(d, "app-toasts")
    IN  IF html.s = "" THEN d
        ELSE IF container = 0 THEN d
        ELSE InsertAt(d, container, container, Stamp(html.html, g))

(***************************************************************************)
(* What the server and the page supply                                     *)
(***************************************************************************)
EmptyText == Text("", << >>)

\* the banner the server renders for a deployment whose banner id is id
BannerFull(id) ==
    Text("<div id=\"" \o id \o "\"><button accept-all><button reject-all>"
            \o "<button close><input analytics><input ads></div>",
         << Mk("DIV", 0, {<<"id", id>>}),
            Mk("BUTTON", 1, {<<"data-consent-action", "accept-all">>}),
            Mk("BUTTON", 1, {<<"data-consent-action", "reject-all">>}),
            Mk("BUTTON", 1, {<<"data-consent-action", "close">>}),
            Mk("INPUT", 1, {<<"type", "checkbox">>, <<"data-consent-slug", "analytics">>}),
            Mk("INPUT", 1, {<<"type", "checkbox">>, <<"data-consent-slug", "ads">>}) >>)

\* a banner carrying the markup the sanitizer is there for
BannerEvil(id) ==
    Text(" <div id=\"" \o id \o "\" onclick><img src=x onerror><script></script>"
            \o "<a href=javascript: close></div>",
         << TextNode,
            Mk("DIV", 0, {<<"id", id>>, <<"onclick", "alert(1)">>}),
            Mk("IMG", 2, {<<"src", "x">>, <<"onerror", "alert(1)">>}),
            Mk("SCRIPT", 2, {}),
            Mk("A", 2, {<<"href", "javascript:alert(1)">>,
                        <<"data-consent-action", "close">>}) >>)

BannerBodies(c) ==
    {BannerFull(c.bannerId), BannerEvil(c.bannerId), EmptyText, Text(" ", <<TextNode>>)}

\* a toast fragment, as accept/reject views and show-toast triggers carry it
ToastHtml ==
    Text("<div class=\"toast\" onclick><img src=x onerror><span>Saved</span></div>",
         << Mk("DIV", 0, {<<"class", "toast">>, <<"onclick", "alert(1)">>}),
            Mk("IMG", 1, {<<"src", "x">>, <<"onerror", "alert(1)">>}),
            Mk("SPAN", 1, {}) >>)

PlainHtml == Text("<p>ok</p>", << Mk("P", 0, {}) >>)

JsonText(s) == Text(s, <<TextNode>>)

ActionBodies ==
    {JsonText("{\"message\":\"Saved\"}"), JsonText("{\"message\":\"\"}"),
     JsonText("{}"), JsonText("null"), ToastHtml, PlainHtml, EmptyText}

\* a response: failed (fetch rejects), or a status and a body that can be
\* read or not
Failure == [failed |-> TRUE, ok |-> FALSE, readable |-> FALSE, body |-> EmptyText]

Replies(bodies) ==
    {Failure}
    \cup {[failed |-> FALSE, ok |-> o, readable |-> TRUE, body |-> b] :
            o \in BOOLEAN, b \in bodies}
    \cup {[failed |-> FALSE, ok |-> TRUE, readable |-> FALSE, body |-> EmptyText]}

\* HX-Trigger header values ("": no such header)
TriggerHeaders ==
    {"", "{removeConsentBanner:true}", "{\"removeConsentBanner\":true}",
     "{\"removeConsentBanner\":false}", "{\"showToast\":{\"html\":TOAST}}",
     "{\"removeConsentBanner\":true,\"showToast\":{\"html\":TOAST}}", "null"}

\* document.cookie when the page is ready
Jars ==
    {<< >>} \cup
    {<< <<"csrftoken", "t0k3n">>, <<CONSENT_COOKIE_NAME, v>> >> :
        v \in {"1", "true", "%7B%22analytics%22%3Atrue%7D",
               "%7B%22analytics%22%3Afalse%7D", Malformed}}

\* the page as the server rendered it: its content, perhaps a banner (in a slot,
\* in a slot with white space around it, or directly in the body), perhaps
\* the toast container
Page(c, banner, toasts) ==
    LET main == << Mk("MAIN", 0, {}) >>
        slot == << Mk("DIV", 0, {<<"id", c.bannerSlotId>>}) >>
        b == BannerFull(c.bannerId).html
        withBanner ==
            CASE banner = "none" -> main
              [] banner = "slot" -> AppendChildren(main \o slot, 2, b)
              [] banner = "slotText" ->
                    AppendChildren(AppendChildren(main \o slot, 2, <<TextNode>>), 2, b)
              [] banner = "body" -> AppendChildren(main, 0, b)
    IN  Stamp(IF toasts
              THEN AppendChildren(withBanner, 0, << Mk("DIV", 0, {<<"id", c.toastsId>>}) >>)
              ELSE withBanner, 0)

Pages(c) ==
    {Page(c, b, t) : b \in {"none", "slot", "slotText", "body"}, t \in BOOLEAN}

(***************************************************************************)
(* Bounds of the exploration                                               *)
(***************************************************************************)
MaxEvals == 2
MaxClicks == 2
MaxChanges == 2
MaxTriggers == 1
MaxRenders == 2
MaxToasts == 2

DEBOUNCE_MS == 250

\* how far time moves between two events while the debounce timer is pending
Gaps == {150}

(***************************************************************************)
(* Observation of a handler run                                            *)
(***************************************************************************)
NoNode == <<0, 0>>

Ident(d, i) == IF i = 0 THEN NoNode ELSE <<d[i].gen, d[i].ix>>

InDoc(d, id) == \E i \in 1..Len(d) : <<d[i].gen, d[i].ix>> = id

RECURSIVE KidsFrom(_, _, _)
KidsFrom(d, p, i) ==
    IF i > Len(d) THEN << >>
    ELSE (IF d[i].par = p THEN <<Ident(d, i)>> ELSE << >>) \o KidsFrom(d, p, i + 1)

\* the children of p, in order, by identity
SlotKids(d, p) == KidsFrom(d, p, 1)

\* op: the handler; arg: its input; banner: the banner node before it ran;
\* kids: the slot's children before it ran; flag: a note of the handler;
\* added: toast entries it appended; paths: the toast functions it called;
\* ins: the server markup it put into the document (raw: as parsed, put: as
\* inserted); posted: requests it issued
Obs(op, arg, pre, c, post, paths, ins, posted) ==
    [op |-> op, arg |-> arg, flag |-> FALSE,
     banner |-> Ident(pre, ElementById(pre, c.bannerId)),
     kids |-> IF ElementById(pre, c.bannerSlotId) = 0 THEN << >>
              ELSE SlotKids(pre, ElementById(pre, c.bannerSlotId)),
     added |-> Cardinality(ToastEntries(post, c)) - Cardinality(ToastEntries(pre, c)),
     paths |-> paths, ins |-> ins, posted |-> posted]

Ins(via, raw, put) == [via |-> via, raw |-> raw, put |-> put]

NoArg == [failed |-> FALSE, ok |-> TRUE, readable |-> TRUE, body |-> EmptyText]

(***************************************************************************)
(* Requests, lines 132-154                                                 *)
(***************************************************************************)
Request(kind, method, form, json) ==
    [kind |-> kind, method |-> method, form |-> form, json |-> json]

\* csrfFetch(url, opts): the request leaves; its number identifies it
csrfFetch(req) ==
    /\ sent' = Append(sent, req)
    /\ net' = net \cup {[id |-> Len(sent) + 1, kind |-> req.kind]}

(***************************************************************************)
(* The page: script evaluation and loadBanner, lines 10-11, 584-619        *)
(***************************************************************************)
Bump(k) == [used EXCEPT ![k] = @ + 1]

NoHist == [n |-> 0, posts |-> 0, from |-> EmptyText, fromGen |-> 0]

\* a mutant of ScriptEval: without the guard of lines 10-11 every evaluation
\* schedules loadBanner
ScriptEval_Unguarded ==
    /\ lc \in {"unloaded", "settled"}
    /\ used.evals < MaxEvals
    /\ used' = Bump("evals")
    /\ loaded' = TRUE
    /\ lc' = "scheduled"
    /\ last' = Obs("eval", NoArg, doc, cfg, doc, << >>, {}, 0)
    /\ UNCHANGED <<cfg, cookie, doc, net, sent, armed, quiet, gen, hist, sanVars, host>>

\* the loader script is evaluated (again)
ScriptEval ==
    /\ lc # "harness"
    /\ used.evals < MaxEvals
    /\ used' = Bump("evals")
    /\ IF loaded
       THEN UNCHANGED <<loaded, lc>>
       ELSE loaded' = TRUE /\ lc' = "scheduled"
    /\ last' = Obs("eval", NoArg, doc, cfg, doc, << >>, {}, 0)
    /\ UNCHANGED <<cfg, cookie, doc, net, sent, armed, quiet, gen, hist, sanVars, host>>

\* a mutant of LoadBanner: a recorded decision suppresses the fetch only
LoadBanner_KeepsBanner ==
    /\ lc = "scheduled"
    /\ IF hasConsentCookie(cookie)
       THEN /\ lc' = "settled"
            /\ last' = Obs("loadDecided", NoArg, doc, cfg, doc, << >>, {}, 0)
            /\ UNCHANGED <<doc, net, sent>>
       ELSE /\ csrfFetch(Request("banner", "GET", "", {}))
            /\ lc' = "fetching"
            /\ last' = Obs("loadFetch", NoArg, doc, cfg, doc, << >>, {}, 1)
            /\ UNCHANGED doc
    /\ UNCHANGED <<cfg, cookie, loaded, armed, quiet, gen, used, hist, sanVars, host>>

\* loadBanner() up to its first await
LoadBanner ==
    /\ lc = "scheduled"
    /\ IF hasConsentCookie(cookie)
       THEN /\ doc' = removeBanner(doc, cfg)
            /\ lc' = "settled"
            /\ last' = Obs("loadDecided", NoArg, doc, cfg, doc', << >>, {}, 0)
            /\ UNCHANGED <<net, sent>>
       ELSE /\ csrfFetch(Request("banner", "GET", "", {}))
            /\ lc' = "fetching"
            /\ last' = Obs("loadFetch", NoArg, doc, cfg, doc, << >>, {}, 1)
            /\ UNCHANGED doc
    /\ UNCHANGED <<cfg, cookie, loaded, armed, quiet, gen, used, hist, sanVars, host>>

\* renderBanner leaves the mounted banner alone (line 277)
RenderSkips(d, c, html, g) ==
    LET frag == RenderFragment(html, g)
        old == ElementById(d, c.bannerId)
    IN  /\ old # 0
        /\ FirstElementChild(frag) # 0
        /\ isEqualNode(d, old, frag, FirstElementChild(frag))

\* what a renderBanner(html) puts into the document
RenderIns(d, c, html, g) ==
    IF html.s = "" \/ RenderSkips(d, c, html, g) THEN {}
    ELSE {Ins("banner", Stamp(Trim(html.html), g), RenderFragment(html, g))}

\* the history after renderBanner(html)
RenderHist(d, c, html, g) ==
    IF html.s = "" \/ RenderSkips(d, c, html, g) THEN hist
    ELSE [hist EXCEPT !.from = html, !.fromGen = g]

\* loadBanner() from the arrival of the banner response, lines 591-603
BannerReply ==
    \E r \in net, a \in Replies(BannerBodies(cfg)) :
        /\ r.kind = "banner"
        /\ net' = net \ {r}
        /\ lc' = "settled"
        /\ LET renders == ~a.failed /\ a.ok /\ a.readable /\ ~IsBlank(a.body.s)
               clears == ~a.failed /\ a.ok /\ a.readable /\ IsBlank(a.body.s)
           IN  /\ doc' = IF renders THEN renderBanner(doc, cfg, a.body, gen + 1)
                         ELSE IF clears THEN removeBanner(doc, cfg)
                         ELSE doc
               /\ gen' = IF renders THEN gen + 2 ELSE gen
               /\ hist' = IF renders THEN RenderHist(doc, cfg, a.body, gen + 1) ELSE hist
               /\ last' = Obs("bannerReply", a, doc, cfg, doc', << >>,
                              IF renders THEN RenderIns(doc, cfg, a.body, gen + 1) ELSE {},
                              0)
        /\ UNCHANGED <<cfg, cookie, loaded, sent, armed, quiet, used, sanVars, host>>

(***************************************************************************)
(* Clicks, lines 408-430, and the accept-all / reject-all flows, 462-520   *)
(***************************************************************************)
Wired(i, role) == i \in 1..Len(doc) /\ doc[i].nl > 0 /\ doc[i].on = role

ClickAcceptAll ==
    \E i \in 1..Len(doc) :
        /\ Wired(i, "accept-all")
        /\ used.clicks < MaxClicks
        /\ used' = Bump("clicks")
        /\ csrfFetch(Request("acceptAll", "POST", "accept_all=1", {}))
        /\ last' = Obs("clickAccept", NoArg, doc, cfg, doc, << >>, {}, 1)
        /\ UNCHANGED <<cfg, cookie, doc, loaded, lc, armed, quiet, gen, hist, sanVars, host>>

ClickRejectAll ==
    \E i \in 1..Len(doc) :
        /\ Wired(i, "reject-all")
        /\ used.clicks < MaxClicks
        /\ used' = Bump("clicks")
        /\ csrfFetch(Request("rejectAll", "POST", "reject_all=1", {}))
        /\ last' = Obs("clickReject", NoArg, doc, cfg, doc, << >>, {}, 1)
        /\ UNCHANGED <<cfg, cookie, doc, loaded, lc, armed, quiet, gen, hist, sanVars, host>>

\* a mutant of ClickClose: closing is recorded as a rejection
ClickClose_Records ==
    \E i \in 1..Len(doc) :
        /\ Wired(i, "close")
        /\ used.clicks < MaxClicks
        /\ used' = Bump("clicks")
        /\ doc' = removeBanner(doc, cfg)
        /\ csrfFetch(Request("rejectAll", "POST", "reject_all=1", {}))
        /\ last' = Obs("clickClose", NoArg, doc, cfg, doc', << >>, {}, 1)
        /\ UNCHANGED <<cfg, cookie, loaded, lc, armed, quiet, gen, hist, sanVars, host>>

ClickClose ==
    \E i \in 1..Len(doc) :
        /\ Wired(i, "close")
        /\ used.clicks < MaxClicks
        /\ used' = Bump("clicks")
        /\ doc' = removeBanner(doc, cfg)
        /\ last' = Obs("clickClose", NoArg, doc, cfg, doc', << >>, {}, 0)
        /\ UNCHANGED <<cfg, cookie, loaded, lc, net, sent, armed, quiet, gen, hist, sanVars, host>>

\* the text JSON.parse is given at lines 480 and 510
ParsedText(text) == JSON_parse(IF text.s = "" THEN "{}" ELSE text.s)

\* the fallback of lines 483-485 written after the try block instead of in
\* its catch clause
ToastCalls_Both(text) ==
    LET js == JSON_parse(IF text.s = "" THEN "{}" ELSE text.s)
        inTry == IF ~js.ok THEN << >>
                 ELSE IF js.obj /\ js.message # "" THEN <<"showToastMessage">>
                 ELSE <<"injectToastFromHtml">>
    IN  inTry \o <<"injectToastFromHtml">>

\* lines 479-485 and 509-515: the toast functions called, in order
ToastCalls(text) ==
    LET js == ParsedText(text)
        inTry == IF ~js.ok THEN << >>
                 ELSE IF js.obj /\ js.message # "" THEN <<"showToastMessage">>
                 ELSE <<"injectToastFromHtml">>
        inCatch == IF ~js.ok THEN <<"injectToastFromHtml">> ELSE << >>
    IN  inTry \o inCatch

RECURSIVE RunToastCalls(_, _, _, _, _)
\* the document after the calls; each call takes two numbers from g on
RunToastCalls(d, c, text, calls, g) ==
    IF calls = << >> THEN d
    ELSE RunToastCalls(
            IF Head(calls) = "showToastMessage"
            THEN showToastMessage(d, c, ParsedText(text).message, g)
            ELSE injectToastFromHtml(d, c, text, g),
            c, text, Tail(calls), g + 2)

\* what the calls put into the document from the server's markup
ToastIns(text, calls, g) ==
    {Ins("toast", ToastClone(text, g + 2 * (k - 1)),
         SanitizeUnder(ToastClone(text, g + 2 * (k - 1)), 1)) :
        k \in {k \in 1..Len(calls) :
                 /\ calls[k] = "injectToastFromHtml"
                 /\ text.s # ""
                 /\ ToastNode(text.html) # 0}}

FailedMessage(kind) ==
    IF kind = "acceptAll" THEN "Failed to accept cookies - please try again."
    ELSE "Failed to reject cookies - please try again."

\* lines 472-475: the text the continuation works on ("" when res.text() throws)
BodyText(a) == IF a.readable THEN a.body ELSE EmptyText

\* doAcceptAll / doRejectAll tearing the banner down on a success status only
ActionDoc_OkOnly(d, c, kind, a, g) ==
    IF a.failed THEN showToastMessage(d, c, FailedMessage(kind), g)
    ELSE RunToastCalls(IF a.ok THEN removeBanner(d, c) ELSE d, c,
                       BodyText(a), ToastCalls(BodyText(a)), g)

\* the document after doAcceptAll / doRejectAll has run from the arrival of
\* response a (or from the failure of the request) on
ActionDoc(d, c, kind, a, g) ==
    IF a.failed THEN showToastMessage(d, c, FailedMessage(kind), g)
    ELSE RunToastCalls(removeBanner(d, c), c, BodyText(a), ToastCalls(BodyText(a)), g)

\* a mutant of ActionReply: a failed or refused request is issued again
ActionReply_Retries ==
    \E r \in net, a \in Replies(ActionBodies) :
        /\ r.kind \in {"acceptAll", "rejectAll"}
        /\ IF a.failed \/ ~a.ok
           THEN /\ sent' = Append(sent, sent[r.id])
                /\ net' = (net \ {r}) \cup {[id |-> Len(sent) + 1, kind |-> r.kind]}
           ELSE /\ net' = net \ {r}
                /\ sent' = sent
        /\ LET text == BodyText(a)
               calls == IF a.failed THEN <<"showToastMessage">> ELSE ToastCalls(text)
           IN  /\ doc' = ActionDoc(doc, cfg, r.kind, a, gen + 1)
               /\ gen' = gen + 2 * Len(calls)
               /\ last' = Obs(r.kind, a, doc, cfg, doc', calls,
                              IF a.failed THEN {} ELSE ToastIns(text, calls, gen + 1), 0)
        /\ UNCHANGED <<cfg, cookie, loaded, lc, armed, quiet, used, hist, sanVars, host>>

\* doAcceptAll / doRejectAll from the arrival of the response (or the failure
\* of the request)
ActionReply ==
    \E r \in net, a \in Replies(ActionBodies) :
        /\ r.kind \in {"acceptAll", "rejectAll"}
        /\ net' = net \ {r}
        /\ LET text == BodyText(a)
               calls == IF a.failed THEN <<"showToastMessage">> ELSE ToastCalls(text)
           IN  /\ doc' = ActionDoc(doc, cfg, r.kind, a, gen + 1)
               /\ gen' = gen + 2 * Len(calls)
               /\ last' = Obs(r.kind, a, doc, cfg, doc', calls,
                              IF a.failed THEN {} ELSE ToastIns(text, calls, gen + 1), 0)
        /\ UNCHANGED <<cfg, cookie, loaded, lc, sent, armed, quiet, used, hist, sanVars, host>>

(***************************************************************************)
(* Granular preferences: the debounce of lines 440-453 and                 *)
(* saveGranularPreferences, lines 522-579                                  *)
(***************************************************************************)
\* the slug of lines 538-545 ("": null)
Slug(n) ==
    IF Attr(n, "data-consent-slug") # "" THEN Attr(n, "data-consent-slug")
    ELSE IF Attr(n, "data-consent_slug") # "" THEN Attr(n, "data-consent_slug")
    ELSE IF Attr(n, "data-consent") # "" THEN Attr(n, "data-consent")
    ELSE Attr(n, "name")

\* a payload built from the checked boxes only
Payload_CheckedOnly(d, banner) ==
    {<<Slug(d[i]), TRUE>> :
        i \in {i \in GranularCheckboxes(d, banner) : Slug(d[i]) # "" /\ d[i].chk}}

\* payload of lines 527-549: for each slug the checked state of the last
\* checkbox that resolves to it
Payload(d, banner) ==
    LET boxes == GranularCheckboxes(d, banner)
    IN  {<<Slug(d[i]), d[i].chk>> :
            i \in {i \in boxes :
                     /\ Slug(d[i]) # ""
                     /\ \A j \in boxes : Slug(d[j]) = Slug(d[i]) => j <= i}}

\* the user toggles a checkbox of the document; its change listener, if any,
\* restarts the timer
Change ==
    \E i \in 1..Len(doc) :
        /\ doc[i].tag = "INPUT" /\ Attr(doc[i], "type") = "checkbox"
        /\ used.changes < MaxChanges
        /\ used' = Bump("changes")
        /\ doc' = [doc EXCEPT ![i].chk = ~@]
        /\ IF doc[i].nl > 0 /\ doc[i].on = "change"
           THEN /\ armed' = TRUE
                /\ quiet' = 0
                /\ hist' = IF armed THEN [hist EXCEPT !.n = @ + 1]
                           ELSE [hist EXCEPT !.n = 1, !.posts = 0]
           ELSE UNCHANGED <<armed, quiet, hist>>
        /\ last' = [Obs("change", NoArg, doc, cfg, doc', << >>, {}, 0)
                        EXCEPT !.flag = doc[i].nl > 0]
        /\ UNCHANGED <<cfg, cookie, loaded, lc, net, sent, gen, sanVars, host>>

Min(a, b) == IF a < b THEN a ELSE b

\* time passes while the timer is pending, at most up to its deadline
Advance ==
    \E dt \in Gaps :
        /\ armed
        /\ quiet < DEBOUNCE_MS
        /\ quiet' = Min(quiet + dt, DEBOUNCE_MS)
        /\ UNCHANGED <<cfg, cookie, doc, loaded, lc, net, sent, armed, gen, used,
                       hist, last, sanVars, host>>

\* a mutant of TimerFire: the new save aborts the saves still outstanding
TimerFire_Aborts ==
    /\ armed
    /\ quiet = DEBOUNCE_MS
    /\ armed' = FALSE
    /\ quiet' = 0
    /\ LET banner == ElementById(doc, cfg.bannerId)
       IN  IF banner = 0
           THEN /\ UNCHANGED <<net, sent, hist>>
                /\ last' = Obs("timer", NoArg, doc, cfg, doc, << >>, {}, 0)
           ELSE /\ sent' = Append(sent, Request("accept", "POST", "", Payload(doc, banner)))
                /\ net' = {r \in net : r.kind # "accept"}
                             \cup {[id |-> Len(sent) + 1, kind |-> "accept"]}
                /\ hist' = [hist EXCEPT !.posts = @ + 1]
                /\ last' = Obs("timer", NoArg, doc, cfg, doc, << >>, {}, 1)
    /\ UNCHANGED <<cfg, cookie, doc, loaded, lc, gen, used, sanVars, host>>

\* the timer fires: saveGranularPreferences() up to its await
TimerFire ==
    /\ armed
    /\ quiet = DEBOUNCE_MS
    /\ armed' = FALSE
    /\ quiet' = 0
    /\ LET banner == ElementById(doc, cfg.bannerId)
       IN  IF banner = 0
           THEN /\ UNCHANGED <<net, sent, hist>>
                /\ last' = Obs("timer", NoArg, doc, cfg, doc, << >>, {}, 0)
           ELSE /\ csrfFetch(Request("accept", "POST", "", Payload(doc, banner)))
                /\ hist' = [hist EXCEPT !.posts = @ + 1]
                /\ last' = Obs("timer", NoArg, doc, cfg, doc, << >>, {}, 1)
    /\ UNCHANGED <<cfg, cookie, doc, loaded, lc, gen, used, sanVars, host>>

\* lines 559-575 with a body that could be read a second time at line 573
SaveToastCalls_TextFallback(a) ==
    LET js == JSON_parse(a.body.s)
    IN  IF a.failed \/ ~a.ok \/ ~a.readable THEN << >>
        ELSE IF ~js.ok THEN <<"injectToastFromHtml">>
        ELSE IF js.obj /\ js.message # "" THEN <<"showToastMessage">>
        ELSE << >>

\* lines 559-575: the toast functions called for a granular-save response.
\* A body that is not JSON leaves res.json() rejected and the body consumed, so
\* the res.text() of line 573 rejects too and line 574 is never reached.
SaveToastCalls(a) ==
    LET js == JSON_parse(a.body.s)
    IN  IF a.failed \/ ~a.ok \/ ~a.readable \/ ~js.ok THEN << >>
        ELSE IF js.obj /\ js.message # "" THEN <<"showToastMessage">>
        ELSE << >>

\* the cookie value in which the server records the mapping of a granular save
StoredValue(json) ==
    LET on(slug) == <<slug, TRUE>> \in json
    IN  CASE on("analytics") /\ on("ads") -> "%7B%22analytics%22%3Atrue%2C%22ads%22%3Atrue%7D"
          [] on("analytics") -> "%7B%22analytics%22%3Atrue%2C%22ads%22%3Afalse%7D"
          [] on("ads") -> "%7B%22analytics%22%3Afalse%2C%22ads%22%3Atrue%7D"
          [] OTHER -> "%7B%22analytics%22%3Afalse%2C%22ads%22%3Afalse%7D"

\* the browser stores the Set-Cookie of a response: the cookie name is set
SetCookie(jar, name, value) ==
    IF \E i \in 1..Len(jar) : jar[i][1] = name
    THEN [i \in 1..Len(jar) |-> IF jar[i][1] = name THEN <<name, value>> ELSE jar[i]]
    ELSE Append(jar, <<name, value>>)

\* a mutant of SaveReply: the response tears the banner down, as the responses
\* to accept-all and reject-all do
SaveReply_Dismisses ==
    \E r \in net, a \in Replies(ActionBodies) :
        /\ r.kind = "accept"
        /\ net' = net \ {r}
        /\ cookie' = IF ~a.failed /\ a.ok
                     THEN SetCookie(cookie, CONSENT_COOKIE_NAME, StoredValue(sent[r.id].json))
                     ELSE cookie
        /\ LET calls == SaveToastCalls(a)
           IN  /\ doc' = RunToastCalls(removeBanner(doc, cfg), cfg, a.body, calls, gen + 1)
               /\ gen' = gen + 2 * Len(calls)
               /\ last' = Obs("accept", a, doc, cfg, doc', calls,
                              ToastIns(a.body, calls, gen + 1), 0)
        /\ UNCHANGED <<cfg, loaded, lc, sent, armed, quiet, used, hist, sanVars, host>>

\* saveGranularPreferences() from the arrival of the response; a success
\* response comes with the consent cookie in which the server recorded the save
SaveReply ==
    \E r \in net, a \in Replies(ActionBodies) :
        /\ r.kind = "accept"
        /\ net' = net \ {r}
        /\ cookie' = IF ~a.failed /\ a.ok
                     THEN SetCookie(cookie, CONSENT_COOKIE_NAME, StoredValue(sent[r.id].json))
                     ELSE cookie
        /\ LET calls == SaveToastCalls(a)
           IN  /\ doc' = RunToastCalls(doc, cfg, a.body, calls, gen + 1)
               /\ gen' = gen + 2 * Len(calls)
               /\ last' = Obs("accept", a, doc, cfg, doc', calls,
                              ToastIns(a.body, calls, gen + 1), 0)
        /\ UNCHANGED <<cfg, loaded, lc, sent, armed, quiet, used, hist, sanVars, host>>

(***************************************************************************)
(* Server-event bridge, consent.js:50-81                                   *)
(***************************************************************************)
HeaderArg(h) == [NoArg EXCEPT !.body = Text(h, << >>)]

\* what onShowToast puts into the document
BridgeIns(d, html, g) ==
    IF html.s = "" \/ onShowToast(d, html, g) = d THEN {}
    ELSE {Ins("trigger", Stamp(html.html, g), Stamp(html.html, g))}

\* the document after the htmx:afterOnLoad listener, given the HX-Trigger value
AfterOnLoad(d, h, g) ==
    LET js == JSON_parse(h)
        d1 == IF js.remove THEN onRemoveBanner(d) ELSE d
    IN  IF h = "" \/ ~js.ok \/ ~js.obj THEN d
        ELSE IF js.toast THEN onShowToast(d1, ToastHtml, g)
        ELSE d1

\* a fragment-swap response has been loaded
HtmxAfterOnLoad ==
    \E h \in TriggerHeaders :
        /\ lc # "harness"
        /\ used.triggers < MaxTriggers
        /\ used' = Bump("triggers")
        /\ doc' = AfterOnLoad(doc, h, gen + 1)
        /\ gen' = gen + 1
        /\ last' = Obs("afterOnLoad", HeaderArg(h), doc, cfg, doc', << >>,
                       IF JSON_parse(h).ok /\ JSON_parse(h).toast
                       THEN BridgeIns(IF JSON_parse(h).remove THEN onRemoveBanner(doc) ELSE doc,
                                      ToastHtml, gen + 1)
                       ELSE {}, 0)
        /\ UNCHANGED <<cfg, cookie, loaded, lc, net, sent, armed, quiet, hist, sanVars, host>>

\* a removeConsentBanner event reaches the document (line 50)
RemoveBannerEvent ==
    /\ lc # "harness"
    /\ used.triggers < MaxTriggers
    /\ used' = Bump("triggers")
    /\ doc' = onRemoveBanner(doc)
    /\ last' = Obs("removeEvent", NoArg, doc, cfg, doc', << >>, {}, 0)
    /\ UNCHANGED <<cfg, cookie, loaded, lc, net, sent, armed, quiet, gen, hist, sanVars, host>>

\* a showToast event reaches the document (line 51)
ShowToastEvent ==
    \E html \in {ToastHtml, EmptyText} :
        /\ lc # "harness"
        /\ used.triggers < MaxTriggers
        /\ used' = Bump("triggers")
        /\ doc' = onShowToast(doc, html, gen + 1)
        /\ gen' = gen + 1
        /\ last' = Obs("toastEvent", NoArg, doc, cfg, doc', << >>,
                       BridgeIns(doc, html, gen + 1), 0)
        /\ UNCHANGED <<cfg, cookie, loaded, lc, net, sent, armed, quiet, hist, sanVars, host>>

(***************************************************************************)
(* Specifications                                                          *)
(***************************************************************************)
SanIdle == spc = "off" /\ sIn = << >> /\ sOnce = << >> /\ sTwice = << >>

NoUse ==
    [evals |-> 0, clicks |-> 0, changes |-> 0, triggers |-> 0, renders |-> 0, toasts |-> 0]

\* the page when the loader script is about to be evaluated
LifeInit(start) ==
    /\ cfg \in {ResolveConfig(o) : o \in Overrides}
    /\ cookie \in Jars
    /\ doc \in Pages(cfg)
    /\ loaded = FALSE
    /\ host = "absent"
    /\ lc = start
    /\ net = {}
    /\ sent = << >>
    /\ armed = FALSE
    /\ quiet = 0
    /\ gen = 0
    /\ used = NoUse
    /\ hist = NoHist
    /\ last = Obs("init", NoArg, doc, cfg, doc, << >>, {}, 0)

Init == SanIdle /\ LifeInit("unloaded")

\* the page from the evaluation of the script on: the load of the banner, its
\* close button, and the server events
Next ==
    \/ ScriptEval
    \/ LoadBanner
    \/ BannerReply
    \/ ClickClose
    \/ HtmxAfterOnLoad
    \/ RemoveBannerEvent
    \/ ShowToastEvent

Spec == Init /\ [][Next]_vars

\* the page once loadBanner() has rendered the full banner
MountedInit ==
    /\ SanIdle
    /\ cfg \in {ResolveConfig(o) : o \in Overrides}
    /\ cookie = << >>
    /\ \E p \in Pages(cfg) :
          /\ doc = renderBanner(p, cfg, BannerFull(cfg.bannerId), 1)
          /\ last = Obs("bannerReply",
                        [NoArg EXCEPT !.body = BannerFull(cfg.bannerId)],
                        p, cfg, doc, << >>,
                        {Ins("banner", Stamp(Trim(BannerFull(cfg.bannerId).html), 1),
                             RenderFragment(BannerFull(cfg.bannerId), 1))}, 0)
    /\ loaded = TRUE
    /\ host = "absent"
    /\ lc = "settled"
    /\ net = {}
    /\ sent = << [kind |-> "banner", method |-> "GET", form |-> "", json |-> {}] >>
    /\ armed = FALSE
    /\ quiet = 0
    /\ gen = 2
    /\ used = NoUse
    /\ hist = [NoHist EXCEPT !.from = BannerFull(cfg.bannerId), !.fromGen = 1]

\* the accept-all and reject-all flows of the mounted banner
ActionNext ==
    \/ ClickAcceptAll
    \/ ClickRejectAll
    \/ ClickClose
    \/ ActionReply

SpecAction == MountedInit /\ [][ActionNext]_vars

\* the granular-preferences flow of the mounted banner
SaveNext ==
    \/ Change
    \/ Advance
    \/ TimerFire
    \/ SaveReply
    \/ ClickClose

SpecSave == MountedInit /\ [][SaveNext]_vars

\* the mounted banner when one click, or one change and its timer, has issued
\* a request that is now outstanding
PendingInit ==
    /\ SanIdle
    /\ cfg \in {ResolveConfig(o) : o \in Overrides}
    /\ cookie = << >>
    /\ loaded = TRUE
    /\ host = "absent"
    /\ lc = "settled"
    /\ armed = FALSE
    /\ quiet = 0
    /\ gen = 2
    /\ \E p \in Pages(cfg), kind \in {"acceptAll", "rejectAll", "accept"} :
          /\ \E m \in {renderBanner(p, cfg, BannerFull(cfg.bannerId), 1)} :
                doc = IF kind = "accept"
                      THEN [m EXCEPT ![First(GranularCheckboxes(
                                            m, ElementById(m, cfg.bannerId)))].chk = ~@]
                      ELSE m
          /\ sent = << Request("banner", "GET", "", {}),
                       CASE kind = "acceptAll" -> Request(kind, "POST", "accept_all=1", {})
                         [] kind = "rejectAll" -> Request(kind, "POST", "reject_all=1", {})
                         [] OTHER -> Request(kind, "POST", "",
                                             Payload(doc, ElementById(doc, cfg.bannerId))) >>
          /\ net = {[id |-> 2, kind |-> kind]}
          /\ used = IF kind = "accept" THEN [NoUse EXCEPT !.changes = 1]
                    ELSE [NoUse EXCEPT !.clicks = 1]
          /\ hist = [n |-> IF kind = "accept" THEN 1 ELSE 0,
                     posts |-> IF kind = "accept" THEN 1 ELSE 0,
                     from |-> BannerFull(cfg.bannerId), fromGen |-> 1]
          /\ last = Obs(IF kind = "accept" THEN "timer"
                        ELSE IF kind = "acceptAll" THEN "clickAccept" ELSE "clickReject",
                        NoArg, doc, cfg, doc, << >>, {}, 1)

\* the responses to the widget's POST requests
ReplyNext ==
    \/ ActionReply
    \/ SaveReply

SpecReply == PendingInit /\ [][ReplyNext]_vars

\* renderBanner(html) called on the page
\* a banner whose controls each answer to two roles: the button is accept-all
\* by its id and close by its action attribute, the checkbox is reject-all too
BannerShared(id) ==
    Text("<div id=\"" \o id \o "\"><button id=accept-all close>"
            \o "<input ads reject-all></div>",
         << Mk("DIV", 0, {<<"id", id>>}),
            Mk("BUTTON", 1, {<<"id", "accept-all">>, <<"data-consent-action", "close">>}),
            Mk("INPUT", 1, {<<"type", "checkbox">>, <<"data-consent-slug", "ads">>,
                            <<"data-consent-action", "reject-all">>}) >>)

\* renderBanner(html) is called
RenderCall ==
    \E html \in BannerBodies(cfg) \cup {BannerShared(cfg.bannerId)} :
        /\ lc = "harness"
        /\ used.renders < MaxRenders
        /\ used' = Bump("renders")
        /\ doc' = renderBanner(doc, cfg, html, gen + 1)
        /\ gen' = gen + 2
        /\ hist' = RenderHist(doc, cfg, html, gen + 1)
        /\ last' = [Obs("render", [NoArg EXCEPT !.body = html], doc, cfg, doc', << >>,
                        RenderIns(doc, cfg, html, gen + 1), 0)
                        EXCEPT !.flag = /\ html = hist.from
                                        /\ hist.fromGen # 0
                                        /\ ElementById(doc, cfg.bannerId) # 0
                                        /\ doc[ElementById(doc, cfg.bannerId)].gen = hist.fromGen]
        /\ UNCHANGED <<cfg, cookie, loaded, lc, net, sent, armed, quiet, sanVars, host>>

\* renderBanner called any number of times on a page
RenderInit == SanIdle /\ LifeInit("harness")

SpecRender == RenderInit /\ [][RenderCall]_vars

(***************************************************************************)
(* Bounded fragments for the sanitizer harness                             *)
(***************************************************************************)
MaxNodes == 3

\* tag and attributes of the elements fragments are built from
Kinds ==
    { <<"DIV", {}>>,
      <<"DIV", {<<"onclick", "alert(1)">>, <<"id", "consent-banner">>}>>,
      <<"A", {<<"href", "javascript:alert(1)">>}>>,
      <<"A", {<<"href", " JavaScript:alert(1)">>, <<"src", "data:text/html,<b>">>}>>,
      <<"A", {<<"href", "/privacy/">>}>>,
      <<"IMG", {<<"src", "x">>, <<"onerror", "alert(1)">>}>>,
      <<"SCRIPT", {}>>,
      <<"H2", {}>>,
      <<"#text", {}>>,
      <<"FORM", {<<"onsubmit", "alert(1)">>}>>,
      <<"INPUT", {<<"name", "attributes">>}>>,
      <<"INPUT", {<<"name", "removeAttribute">>}>>,
      <<"TEXTAREA", {<<"name", "attributes">>}>>,
      <<"INPUT", {<<"type", "checkbox">>, <<"name", "ads">>}>> }

\* parents a pre-order forest allows for node i: the container, or node i-1
\* or one of its ancestors
ParentOk(f, i) ==
    /\ f[i].par < i
    /\ f[i].par = 0 \/ IsUnder(f, i - 1, f[i].par)
    /\ f[i].par = 0 \/ f[f[i].par].tag \notin {"#text", "IMG", "INPUT", "SCRIPT", "TEXTAREA"}

Fragments ==
    UNION { { f \in [1..n -> {Mk(k[1], p, k[2]) : k \in Kinds, p \in 0..(n - 1)}] :
                \A i \in 1..n : ParentOk(f, i) } : n \in 0..MaxNodes }

LifeIdle ==
    /\ cfg = DEFAULTS
    /\ cookie = << >>
    /\ doc = << >>
    /\ loaded = FALSE
    /\ host = "absent"
    /\ lc = "off"
    /\ net = {}
    /\ sent = << >>
    /\ armed = FALSE
    /\ quiet = 0
    /\ gen = 0
    /\ used = NoUse
    /\ hist = NoHist
    /\ last = Obs("init", NoArg, doc, cfg, doc, << >>, {}, 0)

SanInit ==
    /\ spc = "in"
    /\ sIn \in Fragments
    /\ sOnce = << >>
    /\ sTwice = << >>
    /\ LifeIdle

SanOnce ==
    /\ spc = "in"
    /\ sOnce' = sanitizeFragment(sIn)
    /\ spc' = "once"
    /\ UNCHANGED <<sIn, sTwice, lifeVars>>

SanTwice ==
    /\ spc = "once"
    /\ sTwice' = sanitizeFragment(sOnce)
    /\ spc' = "twice"
    /\ UNCHANGED <<sIn, sOnce, lifeVars>>

SanNext == SanOnce \/ SanTwice

SpecSanitize == SanInit /\ [][SanNext]_vars

\* a page view: the load of the banner and the granular-preferences flow
VisitNext ==
    \/ ScriptEval
    \/ LoadBanner
    \/ BannerReply
    \/ Change
    \/ Advance
    \/ TimerFire
    \/ SaveReply

\* a page of the default configuration, without a toast container of its own
VisitInit == Init /\ cfg = DEFAULTS /\ ElementById(doc, cfg.toastsId) = 0

SpecVisit == VisitInit /\ [][VisitNext]_vars

\* the checkboxes a banner may hold: with a slug, with a name only, with
\* neither, with both
BoxKinds ==
    << [s |-> "<input analytics>", attrs |-> {<<"data-consent-slug", "analytics">>}],
       [s |-> "<input name=marketing>", attrs |-> {<<"name", "marketing">>}],
       [s |-> "<input>", attrs |-> {}],
       [s |-> "<input ads name=adsbox>",
        attrs |-> {<<"data-consent-slug", "ads">>, <<"name", "adsbox">>}] >>

RECURSIVE BoxesOf(_, _)
\* the checkboxes of the kinds in K, from kind k on: their markup and nodes
BoxesOf(K, k) ==
    IF k > Len(BoxKinds) THEN Text("", << >>)
    ELSE LET rest == BoxesOf(K, k + 1)
         IN  IF k \in K
             THEN Text(BoxKinds[k].s \o rest.s,
                       << Mk("INPUT", 1, {<<"type", "checkbox">>} \cup BoxKinds[k].attrs) >>
                           \o rest.html)
             ELSE rest

\* a banner holding the checkboxes of the kinds in K
BannerBoxes(id, K) ==
    Text("<div id=\"" \o id \o "\">" \o BoxesOf(K, 1).s \o "</div>",
         << Mk("DIV", 0, {<<"id", id>>}) >> \o BoxesOf(K, 1).html)

\* the page once loadBanner() has rendered a banner of checkboxes
CollectInit ==
    /\ SanIdle
    /\ cfg = DEFAULTS
    /\ cookie = << >>
    /\ \E K \in SUBSET (1..Len(BoxKinds)) \ {{}} :
          /\ doc = renderBanner(Page(cfg, "none", FALSE), cfg, BannerBoxes(cfg.bannerId, K), 1)
          /\ hist = [NoHist EXCEPT !.from = BannerBoxes(cfg.bannerId, K), !.fromGen = 1]
    /\ last = Obs("bannerReply", [NoArg EXCEPT !.body = hist.from],
                  Page(cfg, "none", FALSE), cfg, doc, << >>, {}, 0)
    /\ loaded = TRUE
    /\ host = "absent"
    /\ lc = "settled"
    /\ net = {}
    /\ sent = << Request("banner", "GET", "", {}) >>
    /\ armed = FALSE
    /\ quiet = 0
    /\ gen = 2
    /\ used = NoUse

\* the user toggles checkboxes and the debounce timer fires
CollectNext ==
    \/ Change
    \/ Advance
    \/ TimerFire

SpecCollect == CollectInit /\ [][CollectNext]_vars

(***************************************************************************)
(* Request client: csrfFetch, lines 118-154                                *)
(***************************************************************************)
\* a Headers object holds its names lower-cased; the names of the model
Lower(name) ==
    CASE name = "X-CSRFToken" -> "x-csrftoken"
      [] name = "X-Requested-With" -> "x-requested-with"
      [] name = "Content-Type" -> "content-type"
      [] OTHER -> name

\* new Headers(init)
Headers(init) == {<<Lower(p[1]), p[2]>> : p \in init}

HeadersHas(h, name) == \E p \in h : p[1] = Lower(name)

HeadersSet(h, name, value) ==
    {p \in h : p[1] # Lower(name)} \cup {<<Lower(name), value>>}

\* document.querySelector('meta[name="..."]') (0: null)
MetaByName(d, name) ==
    First({i \in 1..Len(d) : d[i].tag = "META" /\ Attr(d[i], "name") = name})

\* getMetaCsrf(): the content of the first meta element the three selectors
\* find, in their order (NoCookie: null)
getMetaCsrf(d) ==
    LET m == IF MetaByName(d, "csrf-token") # 0 THEN MetaByName(d, "csrf-token")
             ELSE IF MetaByName(d, "csrfmiddlewaretoken") # 0
             THEN MetaByName(d, "csrfmiddlewaretoken")
             ELSE MetaByName(d, "X-CSRFToken")
    IN  IF m = 0 THEN NoCookie ELSE Attr(d[m], "content")

\* a || b for the values getCookie and getMetaCsrf return
OrElse(a, b) == IF a = NoCookie \/ a = "" THEN b ELSE a

\* a mutant of csrfFetchRequest: the meta element is asked before the cookie
csrfFetchRequest_MetaFirst(jar, d, opts) ==
    LET h0 == Headers(opts.headers)
        h1 == IF HeadersHas(h0, "X-Requested-With") THEN h0
              ELSE HeadersSet(h0, "X-Requested-With", "XMLHttpRequest")
        csrftoken == OrElse(getMetaCsrf(d), getCookie(jar, "csrftoken"))
        h2 == IF csrftoken \notin {NoCookie, ""} /\ ~HeadersHas(h1, "X-CSRFToken")
              THEN HeadersSet(h1, "X-CSRFToken", csrftoken)
              ELSE h1
    IN  [thrown |-> FALSE,
         init |-> [url |-> opts.url,
                   method |-> IF opts.method = "" THEN "GET" ELSE opts.method,
                   credentials |-> "same-origin",
                   headers |-> h2,
                   body |-> opts.body]]

\* a mutant of csrfFetchRequest: without a token the call throws
csrfFetchRequest_Blocking(jar, d, opts) ==
    LET r == csrfFetchRequest_MetaFirst(jar, d, opts)
    IN  [r EXCEPT !.thrown = OrElse(getCookie(jar, "csrftoken"), getMetaCsrf(d))
                                \in {NoCookie, ""}]

\* csrfFetch(url, opts): whether it throws, and the init it hands to fetch
csrfFetchRequest(jar, d, opts) ==
    LET h0 == Headers(opts.headers)
        h1 == IF HeadersHas(h0, "X-Requested-With") THEN h0
              ELSE HeadersSet(h0, "X-Requested-With", "XMLHttpRequest")
        csrftoken == OrElse(getCookie(jar, "csrftoken"), getMetaCsrf(d))
        h2 == IF csrftoken \notin {NoCookie, ""} /\ ~HeadersHas(h1, "X-CSRFToken")
              THEN HeadersSet(h1, "X-CSRFToken", csrftoken)
              ELSE h1
    IN  [thrown |-> FALSE,
         init |-> [url |-> opts.url,
                   method |-> IF opts.method = "" THEN "GET" ELSE opts.method,
                   credentials |-> "same-origin",
                   headers |-> h2,
                   body |-> opts.body]]

\* document.cookie with and without a csrftoken cookie
TokenJars ==
    { << >>,
      << <<CONSENT_COOKIE_NAME, "1">> >>,
      << <<"csrftoken", "t0k3n">> >>,
      << <<"csrftoken", "">> >>,
      << <<"csrftoken", Malformed>> >>,
      << <<CONSENT_COOKIE_NAME, "1">>, <<"csrftoken", "t0k3n">> >> }

\* a meta element named name; content "-": no such element, "": no content
MetaNode(name, content) ==
    IF content = "-" THEN << >>
    ELSE << Mk("META", 0, {<<"name", name>>} \cup
                          (IF content = "" THEN {}
                           ELSE {<<"content", content \o "-" \o name>>})) >>

\* the pages: each of the three meta elements absent, empty or holding a token
MetaPages ==
    {Stamp(MetaNode("X-CSRFToken", c[3]) \o MetaNode("csrf-token", c[1])
             \o MetaNode("csrfmiddlewaretoken", c[2]), 0) :
        c \in [1..3 -> {"-", "", "m3ta"}]}

\* the opts of the four call sites (lines 463-469, 493-499, 551-557, 591)
CallSites ==
    { [url |-> "/consent/banner/", method |-> "GET", headers |-> {}, body |-> ""],
      [url |-> "/consent/accept_all/", method |-> "POST",
       headers |-> {<<"Content-Type", "application/x-www-form-urlencoded;charset=UTF-8">>},
       body |-> "accept_all=1"],
      [url |-> "/consent/reject_all/", method |-> "POST",
       headers |-> {<<"Content-Type", "application/x-www-form-urlencoded;charset=UTF-8">>},
       body |-> "reject_all=1"],
      [url |-> "/consent/accept/", method |-> "POST",
       headers |-> {<<"Content-Type", "application/json">>},
       body |-> "{\"ads\":true}"],
      [url |-> "/consent/banner/", method |-> "", headers |-> {}, body |-> ""] }

\* opts as callers pass them: with headers a caller may already supply, and
\* with a credentials member, which csrfFetch does not read
FetchOpts ==
    {[url |-> o.url, method |-> o.method, headers |-> o.headers \cup extra,
      body |-> o.body, credentials |-> cr] :
        o \in CallSites,
        extra \in SUBSET {<<"X-CSRFToken", "caller">>, <<"x-requested-with", "fetch">>},
        cr \in {"", "include"}}

FetchInit ==
    /\ SanIdle
    /\ cfg = DEFAULTS
    /\ cookie \in TokenJars
    /\ doc \in MetaPages
    /\ loaded = FALSE
    /\ host = "absent"
    /\ lc = "client"
    /\ net = {}
    /\ sent = << >>
    /\ armed = FALSE
    /\ quiet = 0
    /\ gen = 0
    /\ used = NoUse
    /\ hist = NoHist
    /\ \E o \in FetchOpts : last = Obs("init", o, doc, cfg, doc, << >>, {}, 0)

\* csrfFetch(url, opts) is called with the opts in last.arg
FetchCall ==
    /\ lc = "client"
    /\ last.op = "init"
    /\ LET r == csrfFetchRequest(cookie, doc, last.arg)
       IN  /\ sent' = IF r.thrown THEN sent ELSE Append(sent, r.init)
           /\ last' = [last EXCEPT !.op = "csrfFetch", !.flag = r.thrown,
                                   !.posted = IF r.thrown THEN 0 ELSE 1]
    /\ UNCHANGED <<cfg, cookie, doc, loaded, lc, net, armed, quiet, gen, used, hist,
                   sanVars, host>>

SpecFetch == FetchInit /\ [][FetchCall]_vars

(***************************************************************************)
(* HTMX requests: htmx-csrf.js, onHtmxConfigRequest, lines 58-88            *)
(***************************************************************************)
\* headers[name] of a plain object ("": undefined)
Member(h, name) ==
    IF \E p \in h : p[1] = name THEN (CHOOSE p \in h : p[1] = name)[2] ELSE ""

\* headers[name] = value
Assign(h, name, value) == {p \in h : p[1] # name} \cup {<<name, value>>}

\* onHtmxConfigRequest(evt): evt.detail.headers as the handler leaves it, and
\* the console call it made
onHtmxConfigRequest(jar, d, evt) ==
    IF evt.malformed THEN [headers |-> evt.headers, console |-> "debug"]
    ELSE LET csrftoken == OrElse(getCookie(jar, "csrftoken"), getMetaCsrf(d))
         IN  IF csrftoken \in {NoCookie, ""}
             THEN [headers |-> evt.headers, console |-> "warn"]
             ELSE LET h1 == Assign(evt.headers, "X-CSRFToken", csrftoken)
                  IN  [headers |-> IF Member(h1, "X-Requested-With") = ""
                                   THEN Assign(h1, "X-Requested-With", "XMLHttpRequest")
                                   ELSE h1,
                       console |-> "none"]

\* htmx:configRequest events: the headers HTMX and earlier listeners have set,
\* and an event without detail.headers
HtmxEvents ==
    {[malformed |-> FALSE, headers |-> {<<"HX-Request", "true">>} \cup extra] :
        extra \in SUBSET {<<"HX-Target", "consent-banner-slot">>,
                          <<"X-CSRFToken", "stale">>,
                          <<"X-Requested-With", "htmx">>}}
    \cup {[malformed |-> TRUE, headers |-> {}]}

HtmxInit ==
    /\ SanIdle
    /\ cfg = DEFAULTS
    /\ cookie \in TokenJars
    /\ doc \in MetaPages
    /\ loaded = FALSE
    /\ host = "absent"
    /\ lc = "htmx"
    /\ net = {}
    /\ sent = << >>
    /\ armed = FALSE
    /\ quiet = 0
    /\ gen = 0
    /\ used = NoUse
    /\ hist = NoHist
    /\ \E e \in HtmxEvents : last = Obs("init", e, doc, cfg, doc, << >>, {}, 0)

\* HTMX dispatches htmx:configRequest with the event in last.arg, then sends
\* the request with the headers the event holds
HtmxConfigRequest ==
    /\ lc = "htmx"
    /\ last.op = "init"
    /\ sent' = <<onHtmxConfigRequest(cookie, doc, last.arg)>>
    /\ last' = [last EXCEPT !.op = "configRequest", !.posted = 1]
    /\ UNCHANGED <<cfg, cookie, doc, loaded, lc, net, armed, quiet, gen, used, hist,
                   sanVars, host>>

SpecHtmx == HtmxInit /\ [][HtmxConfigRequest]_vars

(***************************************************************************)
(* Cookie reader: getCookie and hasConsentCookie, lines 78-116               *)
(***************************************************************************)
MaxCookies == 2

\* raw values the consent cookie may hold
ConsentValues ==
    {"1", "true", "0", "false", "", "yes", "TRUE", "null", "%7B%7D",
     "%7B%22analytics%22%3Atrue%7D", "%7B%22analytics%22%3Afalse%7D",
     "%7B%22analytics%22%3Atrue%2C%22ads%22%3Atrue%7D",
     "%7B%22analytics%22%3Atrue%2C%22ads%22%3Afalse%7D",
     "%7B%22analytics%22%3Afalse%2C%22ads%22%3Atrue%7D",
     "%7B%22analytics%22%3Afalse%2C%22ads%22%3Afalse%7D", Malformed}

\* document.cookie: up to MaxCookies cookies, the consent cookie among others
CookieJars ==
    UNION {[1..n -> {<<CONSENT_COOKIE_NAME, v>> : v \in ConsentValues}
                    \cup {<<"csrftoken", "t0k3n">>, <<"consent_status_v1", "1">>}] :
           n \in 0..MaxCookies}

CookieInit ==
    /\ SanIdle
    /\ cfg = DEFAULTS
    /\ cookie \in CookieJars
    /\ doc = << >>
    /\ loaded = FALSE
    /\ host = "absent"
    /\ lc = "reader"
    /\ net = {}
    /\ sent = << >>
    /\ armed = FALSE
    /\ quiet = 0
    /\ gen = 0
    /\ used = NoUse
    /\ hist = NoHist
    /\ last = Obs("init", NoArg, doc, cfg, doc, << >>, {}, 0)

\* hasConsentCookie() is called; last.flag is what it returns
CookieCall ==
    /\ lc = "reader"
    /\ last.op = "init"
    /\ last' = [last EXCEPT !.op = "hasConsentCookie", !.flag = hasConsentCookie(cookie)]
    /\ UNCHANGED <<cfg, cookie, doc, loaded, lc, net, sent, armed, quiet, gen, used,
                   hist, sanVars, host>>

SpecCookie == CookieInit /\ [][CookieCall]_vars

(***************************************************************************)
(* Configuration merge: DEFAULTS and CONFIG, lines 16-63                   *)
(***************************************************************************)
\* DEFAULTS with all its keys: the top-level ones and the endpoints record
ConfigDefaults ==
    [top |-> {<<"cookieName", "consent_status">>,
              <<"bannerSlotId", "consent-banner-slot">>,
              <<"bannerId", "consent-banner">>,
              <<"toastsId", "app-toasts">>,
              <<"autoLoad", "true">>},
     endpoints |-> {<<"banner", "/consent/banner/">>,
                    <<"acceptAll", "/consent/accept_all/">>,
                    <<"rejectAll", "/consent/reject_all/">>,
                    <<"accept", "/consent/accept/">>}]

\* the members of m, overwritten and extended by those of o
MergeAll(m, o) == {p \in m : \A q \in o : q[1] # p[1]} \cup o

\* a mutant of CONFIG: an override's endpoints record replaces the default one
CONFIG_EndpointsReplaced(o) ==
    IF o.kind # "object" THEN ConfigDefaults
    ELSE [top |-> MergeAll(ConfigDefaults.top, o.own),
          endpoints |-> IF o.named THEN o.endpoints ELSE ConfigDefaults.endpoints]

\* CONFIG for window.CONSENT_CONFIG = o
CONFIG(o) ==
    IF o.kind # "object" THEN ConfigDefaults
    ELSE [top |-> MergeAll(ConfigDefaults.top, o.own),
          endpoints |-> MergeAll(ConfigDefaults.endpoints,
                                 IF o.named THEN o.endpoints ELSE {})]

\* window.CONSENT_CONFIG: not set, null, a string, an object whose members
\* throw when read, or an object with some own members (own) and, if named,
\* an endpoints record
ConfigOverrides ==
    {[kind |-> k, own |-> {}, named |-> FALSE, endpoints |-> {}] :
        k \in {"undefined", "null", "string", "throws"}}
    \cup
    {[kind |-> "object", own |-> own, named |-> n, endpoints |-> e] :
        own \in SUBSET {<<"bannerId", "cmp-banner">>, <<"toastsId", "cmp-toasts">>,
                        <<"autoLoad", "false">>, <<"cookieName", "cmp_consent">>,
                        <<"theme", "dark">>},
        n \in BOOLEAN,
        e \in SUBSET {<<"banner", "/cmp/banner/">>, <<"accept", "/cmp/save/">>,
                      <<"rejectAll", "/cmp/no/">>}}

ConfigInit ==
    /\ SanIdle
    /\ cfg = [top |-> {}, endpoints |-> {}]
    /\ cookie = << >>
    /\ doc = << >>
    /\ loaded = FALSE
    /\ host = "absent"
    /\ lc = "config"
    /\ net = {}
    /\ sent = << >>
    /\ armed = FALSE
    /\ quiet = 0
    /\ gen = 0
    /\ used = NoUse
    /\ hist = NoHist
    /\ \E o \in ConfigOverrides :
          last = Obs("init", o, doc, DEFAULTS, doc, << >>, {}, 0)

\* the loader script is evaluated on a page whose window.CONSENT_CONFIG is
\* last.arg: CONFIG is built and the script runs on
ConfigEval ==
    /\ lc = "config"
    /\ ~loaded
    /\ cfg' = CONFIG(last.arg)
    /\ loaded' = TRUE
    /\ last' = [last EXCEPT !.op = "config"]
    /\ UNCHANGED <<cookie, doc, lc, net, sent, armed, quiet, gen, used, hist, sanVars, host>>

SpecConfig == ConfigInit /\ [][ConfigEval]_vars

(***************************************************************************)
(* The whole page load: the guard of lines 10-11, loadBanner, every control *)
(* of the banner, the timer, the responses and the server events           *)
(***************************************************************************)
\* the default deployment: a visitor with or without a recorded decision, on
\* a page with or without a server-rendered banner, who clicks once and
\* toggles once, and one server event
PageInit ==
    /\ SanIdle
    /\ loaded = FALSE
    /\ host = "absent"
    /\ lc = "unloaded"
    /\ net = {}
    /\ sent = << >>
    /\ armed = FALSE
    /\ quiet = 0
    /\ gen = 0
    /\ hist = NoHist
    /\ cfg = DEFAULTS
    /\ cookie \in {<< >>, << <<"csrftoken", "t0k3n">>, <<CONSENT_COOKIE_NAME, "1">> >>}
    /\ doc \in {Page(cfg, "none", TRUE), Page(cfg, "slot", TRUE)}
    /\ used = [NoUse EXCEPT !.clicks = MaxClicks - 1, !.changes = MaxChanges - 1,
                            !.triggers = MaxTriggers - 1]
    /\ last = Obs("init", NoArg, doc, cfg, doc, << >>, {}, 0)

\* a mutant of PageNext: the banner GET is given up after a while
PageNext_WithTimeout ==
    \/ ScriptEval
    \/ LoadBanner
    \/ BannerReply
    \/ ClickAcceptAll
    \/ ClickRejectAll
    \/ ClickClose
    \/ ActionReply
    \/ Change
    \/ Advance
    \/ TimerFire
    \/ SaveReply
    \/ HtmxAfterOnLoad
    \/ RemoveBannerEvent
    \/ /\ lc = "fetching"
       /\ lc' = "settled"
       /\ net' = {r \in net : r.kind # "banner"}
       /\ last' = Obs("timeout", NoArg, doc, cfg, doc, << >>, {}, 0)
       /\ UNCHANGED <<cfg, cookie, doc, loaded, sent, armed, quiet, gen, used, hist,
                      sanVars, host>>

PageNext ==
    \/ ScriptEval
    \/ LoadBanner
    \/ BannerReply
    \/ ClickAcceptAll
    \/ ClickRejectAll
    \/ ClickClose
    \/ ActionReply
    \/ Change
    \/ Advance
    \/ TimerFire
    \/ SaveReply
    \/ HtmxAfterOnLoad
    \/ RemoveBannerEvent

SpecPage == PageInit /\ [][PageNext]_vars

(***************************************************************************)
(* Toasts: showToastMessage, injectToastFromHtml and their removal timers, *)
(* lines 296-373                                                           *)
(***************************************************************************)
\* a toast fragment whose first match is a .toast-body element
ToastBodyHtml ==
    Text("<div class=\"toast-body\">Saved</div>",
         << Mk("DIV", 0, {<<"class", "toast-body">>}) >>)

\* the page, its banner gone, when a handler of the loader is about to show a
\* toast
ToastInit ==
    /\ SanIdle
    /\ cfg \in {ResolveConfig(o) : o \in Overrides}
    /\ cookie = << >>
    /\ doc \in {p \in Pages(cfg) : ElementById(p, cfg.bannerId) = 0}
    /\ loaded = TRUE
    /\ host \in {"absent", "present", "throws"}
    /\ lc = "toasts"
    /\ net = {}
    /\ sent = << >>
    /\ armed = FALSE
    /\ quiet = 0
    /\ gen = 0
    /\ used = NoUse
    /\ hist = NoHist
    /\ last = Obs("init", NoArg, doc, cfg, doc, << >>, {}, 0)

\* a handler calls showToastMessage(msg)
ShowToastMessageCall ==
    \E msg \in {"Saved", ""} :
        /\ lc = "toasts"
        /\ used.toasts < MaxToasts
        /\ used' = Bump("toasts")
        /\ doc' = showToastMessage(doc, cfg, msg, gen + 1)
        /\ gen' = gen + 2
        /\ last' = Obs("showToastMessage", [NoArg EXCEPT !.body = Text(msg, << >>)],
                       doc, cfg, doc', <<"showToastMessage">>, {}, 0)
        /\ UNCHANGED <<cfg, cookie, loaded, lc, net, sent, armed, quiet, hist, sanVars,
                       host>>

\* a handler calls injectToastFromHtml(html)
InjectToastCall ==
    \E html \in {ToastHtml, ToastBodyHtml, PlainHtml, EmptyText} :
        /\ lc = "toasts"
        /\ used.toasts < MaxToasts
        /\ used' = Bump("toasts")
        /\ doc' = injectToastFromHtml(doc, cfg, html, gen + 1)
        /\ gen' = gen + 2
        /\ last' = Obs("injectToastFromHtml", [NoArg EXCEPT !.body = html],
                       doc, cfg, doc', <<"injectToastFromHtml">>,
                       ToastIns(html, <<"injectToastFromHtml">>, gen + 1), 0)
        /\ UNCHANGED <<cfg, cookie, loaded, lc, net, sent, armed, quiet, hist, sanVars,
                       host>>

\* the removal timer of node i fires: toast.remove() / t.remove()
ToastTimerFire ==
    \E i \in 1..Len(doc) :
        /\ lc = "toasts"
        /\ doc[i].tmr > 0
        /\ doc' = RemoveNodes(doc, Closure(doc, {i}))
        /\ last' = Obs("toastTimer", NoArg, doc, cfg, doc', << >>, {}, 0)
        /\ UNCHANGED <<cfg, cookie, loaded, lc, net, sent, armed, quiet, gen, used, hist,
                       sanVars, host>>

ToastNext ==
    \/ ShowToastMessageCall
    \/ InjectToastCall
    \/ ToastTimerFire

SpecToast == ToastInit /\ [][ToastNext]_vars

\* timers fire: a pending removal timer is not postponed forever
SpecToastFair == ToastInit /\ [][ToastNext]_vars /\ WF_vars(ToastTimerFire)

(***************************************************************************)
(* Banner markup of any shape, rendered and torn down                      *)
(***************************************************************************)
\* a banner followed by a second top-level element
BannerPair(id) ==
    Text("<div id=\"" \o id \o "\"><button close></div><p>notice</p>",
         << Mk("DIV", 0, {<<"id", id>>}),
            Mk("BUTTON", 1, {<<"data-consent-action", "close">>}),
            Mk("P", 0, {}) >>)

\* a banner whose root carries another id than the configured one
BannerForeign ==
    Text("<div id=\"cookie-notice\"><button close></div>",
         << Mk("DIV", 0, {<<"id", "cookie-notice">>}),
            Mk("BUTTON", 1, {<<"data-consent-action", "close">>}) >>)

\* a banner whose root already carries the marker attachHandlers sets
BannerMarked(id) ==
    Text("<div id=\"" \o id \o "\" data-handlers-attached=\"1\"><button close>"
            \o "<input ads></div>",
         << Mk("DIV", 0, {<<"id", id>>, <<"data-handlers-attached", "1">>}),
            Mk("BUTTON", 1, {<<"data-consent-action", "close">>}),
            Mk("INPUT", 1, {<<"type", "checkbox">>, <<"data-consent-slug", "ads">>}) >>)

Markups(c) ==
    {BannerFull(c.bannerId), BannerPair(c.bannerId), BannerForeign, BannerMarked(c.bannerId)}

\* renderBanner(html) with the markup of a banner response
MarkupRender ==
    \E html \in Markups(cfg) :
        /\ lc = "markup"
        /\ used.renders < MaxRenders
        /\ used' = Bump("renders")
        /\ doc' = renderBanner(doc, cfg, html, gen + 1)
        /\ gen' = gen + 2
        /\ hist' = RenderHist(doc, cfg, html, gen + 1)
        /\ last' = Obs("render", [NoArg EXCEPT !.body = html], doc, cfg, doc', << >>,
                       RenderIns(doc, cfg, html, gen + 1), 0)
        /\ UNCHANGED <<cfg, cookie, loaded, lc, net, sent, armed, quiet, sanVars, host>>

\* the default deployment, where the bridge and the loader look for the same
\* ids
TeardownInit ==
    /\ SanIdle
    /\ cfg = DEFAULTS
    /\ cookie = << >>
    /\ doc \in Pages(cfg)
    /\ loaded = TRUE
    /\ host = "absent"
    /\ lc = "markup"
    /\ net = {}
    /\ sent = << >>
    /\ armed = FALSE
    /\ quiet = 0
    /\ gen = 0
    /\ used = NoUse
    /\ hist = NoHist
    /\ last = Obs("init", NoArg, doc, cfg, doc, << >>, {}, 0)

TeardownNext ==
    \/ MarkupRender
    \/ ClickClose
    \/ RemoveBannerEvent

SpecTeardown == TeardownInit /\ [][TeardownNext]_vars

\* the granular-preferences flow when timers fire and responses arrive: the
\* browser runs a due timer callback and settles every fetch
FairSaveInit == MountedInit /\ cfg = DEFAULTS /\ Len(doc) <= 8

SpecSaveFair ==
    /\ FairSaveInit
    /\ [][SaveNext]_vars
    /\ WF_vars(Advance)
    /\ WF_vars(TimerFire)
    /\ WF_vars(SaveReply)

\* a visitor with or without a recorded decision who clicks accept-all or
\* reject-all once
ProgressInit ==
    /\ SanIdle
    /\ loaded = FALSE
    /\ host = "absent"
    /\ lc = "unloaded"
    /\ net = {}
    /\ sent = << >>
    /\ armed = FALSE
    /\ quiet = 0
    /\ gen = 0
    /\ hist = NoHist
    /\ cfg = DEFAULTS
    /\ cookie \in {<< >>, << <<CONSENT_COOKIE_NAME, "1">> >>}
    /\ doc \in {Page(cfg, "none", FALSE), Page(cfg, "none", TRUE)}
    /\ used = [NoUse EXCEPT !.clicks = MaxClicks - 1]
    /\ last = Obs("init", NoArg, doc, cfg, doc, << >>, {}, 0)

ProgressNext ==
    \/ ScriptEval
    \/ LoadBanner
    \/ BannerReply
    \/ ClickAcceptAll
    \/ ClickRejectAll
    \/ ActionReply

\* the browser runs the scheduled loadBanner and settles the banner GET
SpecProgress ==
    /\ ProgressInit
    /\ [][ProgressNext]_vars
    /\ WF_vars(LoadBanner)
    /\ WF_vars(BannerReply)

(***************************************************************************)
(* Properties                                                              *)
(***************************************************************************)
BannerNow == ElementById(doc, cfg.bannerId)

SlotNow == ElementById(doc, cfg.bannerSlotId)

MessageBody == "{\"message\":\"Saved\"}"

\* the consent cookie holds a recorded decision
C1_Decided ==
    getCookie(cookie, "consent_status")
        \in {"1", "true", "%7B%22analytics%22%3Atrue%7D"}

C1_NoFetch == C1_Decided => \A k \in 1..Len(sent) : sent[k].kind # "banner"

\* C1 as stated: with a recorded decision in the cookie no banner GET is ever
\* issued, and loadBanner leaves neither a banner node nor a slot
C1_DecisionSuppressesFetch ==
    /\ C1_NoFetch
    /\ (C1_Decided /\ last.op = "loadDecided") => (BannerNow = 0 /\ SlotNow = 0)

\* C1 amended: with a recorded decision in the cookie no banner GET is ever
\* issued and loadBanner removes the banner node; it removes the slot exactly
\* when that leaves the slot without child nodes
C1_DecisionSuppressesFetchAmended ==
    /\ C1_NoFetch
    /\ (C1_Decided /\ last.op = "loadDecided") =>
          /\ BannerNow = 0
          /\ ~InDoc(doc, last.banner)
          /\ SlotNow # 0 => Children(doc, SlotNow) # {}
          /\ SlotNow = 0 => \A k \in 1..Len(last.kids) : last.kids[k] = last.banner

\* a decided page whose slot held the banner and a text node: the banner is
\* gone, the slot is still there
C1_Witness ==
    /\ C1_Decided
    /\ last.op = "loadDecided"
    /\ last.banner # NoNode
    /\ Len(last.kids) = 2
    /\ BannerNow = 0
    /\ SlotNow # 0

\* C2: renderBanner run again with the HTML the mounted, wired banner was
\* rendered from leaves that banner node and the slot's children in place
C2_IdenticalRerender ==
    (last.op = "render" /\ last.flag /\ last.arg.body.s # "") =>
        /\ InDoc(doc, last.banner)
        /\ SlotNow # 0 => SlotKids(doc, SlotNow) = last.kids

\* the checked state of every checkbox of the mounted banner, by slug
C3_FinalState ==
    {<<Attr(doc[i], "data-consent-slug"), doc[i].chk>> :
        i \in {i \in 1..Len(doc) : doc[i].tag = "INPUT" /\ IsUnder(doc, i, BannerNow)}}

\* C3: a burst of n >= 1 changes, each restarting the 250ms timer, issues no
\* granular-save POST while the timer is pending and exactly one when it
\* fires with the banner mounted, carrying the checkboxes' state at that moment
C3_Debounce ==
    /\ armed => (hist.n >= 1 /\ hist.posts = 0)
    /\ (~armed /\ hist.n >= 1) => hist.posts <= 1
    /\ (last.op = "timer" /\ last.banner # NoNode) =>
          /\ hist.posts = 1
          /\ last.posted = 1
          /\ sent[Len(sent)].kind = "accept"
          /\ sent[Len(sent)].json = C3_FinalState

\* two changes less than 250ms apart, one POST, carrying both boxes checked
C3_Witness ==
    /\ last.op = "timer"
    /\ last.banner # NoNode
    /\ hist.n = 2
    /\ hist.posts = 1
    /\ sent[Len(sent)].json = {<<"analytics", TRUE>>, <<"ads", TRUE>>}

\* C4: an HX-Trigger value that is not strict JSON makes the bridge do
\* nothing; the value {"removeConsentBanner": true} removes the mounted banner
C4_StrictTrigger ==
    /\ (last.op = "afterOnLoad" /\ last.arg.body.s = "{removeConsentBanner:true}") =>
          /\ last.banner # NoNode => InDoc(doc, last.banner)
          /\ last.added = 0
          /\ last.ins = {}
    /\ (last.op = "afterOnLoad" /\ last.arg.body.s = "{\"removeConsentBanner\":true}") =>
          ~InDoc(doc, last.banner)

\* C5: once an accept-all or reject-all POST has a response the banner is
\* gone, whatever the status and the body; a body {"message": m} adds a toast
\* of text m in the same continuation
C5_Teardown ==
    (last.op \in {"acceptAll", "rejectAll"} /\ ~last.arg.failed) =>
        /\ BannerNow = 0
        /\ ~InDoc(doc, last.banner)
        /\ (last.arg.readable /\ last.arg.body.s = MessageBody) =>
              /\ last.added = 1
              /\ \E i \in ToastEntries(doc, cfg) :
                    /\ Attr(doc[i], "textContent") = "Saved"
                    /\ doc[i].gen = gen - 1

\* a non-success reject-all response whose body carries a message: the banner
\* that was mounted is gone
C5_Witness ==
    /\ last.op = "rejectAll"
    /\ ~last.arg.failed
    /\ ~last.arg.ok
    /\ last.arg.body.s = MessageBody
    /\ last.banner # NoNode
    /\ BannerNow = 0

\* C6: an accept-all or reject-all response invokes exactly one toast function:
\* showToastMessage iff the body is JSON with a truthy message, otherwise
\* injectToastFromHtml
C6_OneToastPath ==
    (last.op \in {"acceptAll", "rejectAll"} /\ ~last.arg.failed) =>
        /\ Len(last.paths) = 1
        /\ last.paths[1] \in {"showToastMessage", "injectToastFromHtml"}
        /\ last.paths[1] = "showToastMessage" <=>
              (last.arg.readable /\ last.arg.body.s = MessageBody)

\* a body that parses as JSON but carries no message took the fragment path
C6_Witness ==
    /\ last.op = "acceptAll"
    /\ last.arg.readable
    /\ last.arg.body.s = "null"
    /\ last.paths = <<"injectToastFromHtml">>

C7_Response ==
    last.op \in {"acceptAll", "rejectAll", "accept"} /\ ~last.arg.failed

\* C7 as stated: every response to an accept-all, reject-all or granular-save
\* request adds exactly one entry to the toast container
C7_ExactlyOneToast == C7_Response => last.added = 1

\* C7 amended: a response adds at most one toast entry: one when its body is
\* JSON with a truthy message (for a granular save: and its status is a
\* success), or, for accept-all and reject-all, when the body is not such JSON
\* and holds a .toast or .toast-body element; none otherwise
C7_AtMostOneToast ==
    C7_Response =>
        LET message == last.arg.readable /\ last.arg.body.s = MessageBody
            element == last.arg.readable /\ last.arg.body.s = ToastHtml.s
        IN  last.added =
                IF last.op = "accept"
                THEN (IF last.arg.ok /\ message THEN 1 ELSE 0)
                ELSE (IF message \/ element THEN 1 ELSE 0)

\* an accept-all response with a toast fragment has added its one toast
C7_Witness ==
    /\ last.op = "acceptAll"
    /\ last.arg.body.s = ToastHtml.s
    /\ last.arg.readable
    /\ last.added = 1

\* C8: sanitizing a fragment a second time leaves what the first pass left
C8_Idempotent == spc = "twice" => sTwice = sOnce

Clean(f) ==
    \A i \in 1..Len(f) :
        IsElement(f[i]) =>
            /\ f[i].tag \in {"DIV", "P", "SPAN", "BUTTON", "A", "UL", "LI", "INPUT",
                             "LABEL", "SECTION", "ARTICLE", "FORM"}
            /\ \A p \in f[i].attrs :
                  /\ p[1] \notin {"onclick", "onerror", "onsubmit"}
                  /\ p[1] \in {"href", "src"} =>
                        p[2] \notin {"javascript:alert(1)", " JavaScript:alert(1)",
                                     "data:text/html,<b>"}

\* C9: after sanitizeFragment every remaining element has an allow-listed tag,
\* no on* attribute and no javascript: / data:text/html href or src
C9_Postcondition == spc = "once" => Clean(sOnce)

\* C10: whatever server markup a handler puts into the document is what the
\* sanitizer leaves of the markup as parsed
C10_SanitizedBeforeInsert ==
    \A e \in last.ins : e.put \in {sanitizeFragment(e.raw), SanitizeUnder(e.raw, 1)}

\* the request csrfFetch handed to fetch, and the opts it was called with
FetchDone == lc = "client" /\ last.op = "csrfFetch"

\* the headers of the issued request named name
Sent(name) == {p[2] : p \in {q \in sent[1].headers : q[1] = Lower(name)}}

\* the values the caller's own headers hold for name
Supplied(name) == {p[2] : p \in {q \in last.arg.headers : Lower(q[1]) = Lower(name)}}

\* the value of the csrftoken cookie ("": none, empty or undecodable)
C12_CookieToken ==
    LET S == {i \in 1..Len(cookie) : cookie[i][1] = "csrftoken"}
    IN  IF S = {} THEN ""
        ELSE IF cookie[First(S)][2] = Malformed THEN "" ELSE cookie[First(S)][2]

\* the content of the page's CSRF meta element, the first in the order
\* csrf-token, csrfmiddlewaretoken, X-CSRFToken ("": none, or no content)
C12_MetaToken ==
    LET named(n) == {i \in 1..Len(doc) : doc[i].tag = "META" /\ Attr(doc[i], "name") = n}
        S == IF named("csrf-token") # {} THEN named("csrf-token")
             ELSE IF named("csrfmiddlewaretoken") # {} THEN named("csrfmiddlewaretoken")
             ELSE named("X-CSRFToken")
    IN  IF S = {} THEN "" ELSE Attr(doc[First(S)], "content")

C11_NoTokenSource ==
    /\ \A i \in 1..Len(cookie) : cookie[i][1] # "csrftoken"
    /\ \A i \in 1..Len(doc) : doc[i].tag # "META"

\* C11: with neither a csrftoken cookie nor a CSRF meta element, csrfFetch does
\* not throw and still issues the request; csrfFetch adds no X-CSRFToken header
\* to it (the request carries only what the caller itself supplied, which is
\* nothing at every call site).
C11_MissingTokenStillSends ==
    (FetchDone /\ C11_NoTokenSource) =>
        /\ ~last.flag
        /\ Len(sent) = 1
        /\ sent[1].url = last.arg.url
        /\ Sent("X-CSRFToken") = Supplied("X-CSRFToken")

C11_Witness ==
    /\ FetchDone
    /\ C11_NoTokenSource
    /\ Len(sent) = 1
    /\ Sent("X-CSRFToken") = {}
    /\ sent[1].method = "POST"

\* C12: every request csrfFetch issues uses same-origin credentials, carries
\* X-Requested-With, and carries X-CSRFToken when a token exists; the token is
\* the csrftoken cookie's value, and the CSRF meta element's content only when
\* the cookie yields nothing; a header the caller supplied under either name
\* keeps the caller's value.
C12_RequestShape ==
    FetchDone =>
        /\ Len(sent) = 1
        /\ sent[1].credentials = "same-origin"
        /\ Sent("X-Requested-With") =
              (IF Supplied("X-Requested-With") # {} THEN Supplied("X-Requested-With")
               ELSE {"XMLHttpRequest"})
        /\ Sent("X-CSRFToken") =
              (IF Supplied("X-CSRFToken") # {} THEN Supplied("X-CSRFToken")
               ELSE IF C12_CookieToken # "" THEN {C12_CookieToken}
               ELSE IF C12_MetaToken # "" THEN {C12_MetaToken}
               ELSE {})

\* a page with both token sources: the cookie wins, the caller's marker stays
C12_Witness ==
    /\ FetchDone
    /\ C12_CookieToken = "t0k3n"
    /\ C12_MetaToken = "m3ta-csrfmiddlewaretoken"
    /\ Sent("X-CSRFToken") = {"t0k3n"}
    /\ Sent("X-Requested-With") = {"fetch"}
    /\ last.arg.credentials = "include"

\* the cookie yields nothing and the meta element supplies the token
C12_WitnessMeta ==
    /\ FetchDone
    /\ C12_CookieToken = ""
    /\ cookie # << >>
    /\ Sent("X-CSRFToken") = {"m3ta-X-CSRFToken"}

\* an HTMX request whose configRequest handler has run
HtmxDone == lc = "htmx" /\ last.op = "configRequest" /\ ~last.arg.malformed

\* C13: after the configRequest handler has run, every HTMX request carries
\* X-Requested-With, with or without a CSRF token; without a token the handler
\* adds no X-CSRFToken and records a diagnostic.
C13_AjaxMarkerAlways ==
    HtmxDone =>
        /\ Member(sent[1].headers, "X-Requested-With") # ""
        /\ (C12_CookieToken = "" /\ C12_MetaToken = "") =>
              /\ Member(sent[1].headers, "X-CSRFToken")
                    = Member(last.arg.headers, "X-CSRFToken")
              /\ sent[1].console = "warn"

\* the raw value of the consent cookie, the first of that name (NoCookie: none)
C14_Raw ==
    LET S == {i \in 1..Len(cookie) : cookie[i][1] = CONSENT_COOKIE_NAME}
    IN  IF S = {} THEN NoCookie ELSE cookie[First(S)][2]

\* the values that are "1" or "true", or encode a mapping with a truthy member
C14_Granting ==
    {"1", "true", "%7B%22analytics%22%3Atrue%7D",
     "%7B%22analytics%22%3Atrue%2C%22ads%22%3Atrue%7D",
     "%7B%22analytics%22%3Atrue%2C%22ads%22%3Afalse%7D",
     "%7B%22analytics%22%3Afalse%2C%22ads%22%3Atrue%7D"}

C14_WitnessFalsy ==
    /\ lc = "reader"
    /\ last.op = "hasConsentCookie"
    /\ C14_Raw = "%7B%22analytics%22%3Afalse%2C%22ads%22%3Afalse%7D"
    /\ ~last.flag

\* the consent cookie holds a recorded decision
C15_Decided == C14_Raw \in C14_Granting

\* C15: in every reachable state in which the consent cookie holds a recorded
\* decision, no banner node is mounted.
C15_DecisionMeansNoBanner ==
    (C15_Decided /\ lc \in {"fetching", "settled"}) => BannerNow = 0

\* C15 amended: the invariant is established by loadBanner at page load, where
\* the cookie is read: a page loaded with a recorded decision has no banner
\* mounted from then on; a banner is mounted beside a recorded decision only
\* when a granular save of this page view recorded it while the banner was open.
C15_DecisionAtLoadMeansNoBanner ==
    /\ last.op = "loadDecided" => BannerNow = 0
    /\ (lc = "settled" /\ \A k \in 1..Len(sent) : sent[k].kind # "banner")
          => BannerNow = 0
    /\ (C15_Decided /\ lc \in {"fetching", "settled"} /\ BannerNow # 0) =>
          \E k \in 1..Len(sent) :
              /\ sent[k].kind = "accept"
              /\ \E p \in sent[k].json : p[2]
              /\ C14_Raw = StoredValue(sent[k].json)

\* a page loaded with a decision in the cookie and a server-rendered banner:
\* loadBanner has removed the banner
C15_Witness ==
    /\ C15_Decided
    /\ last.op = "loadDecided"
    /\ last.banner # NoNode
    /\ BannerNow = 0

\* the banner is still mounted after the server recorded a granular save
C15_WitnessSaved ==
    /\ C15_Decided
    /\ last.op = "accept"
    /\ BannerNow # 0

\* the banner GET was answered with a non-success status, or with a success
\* status and an empty or white-space body
C16_NothingToShow ==
    /\ last.op = "bannerReply"
    /\ ~last.arg.failed
    /\ \/ ~last.arg.ok
       \/ last.arg.readable /\ last.arg.body.s \in {"", " "}

\* C16: a banner GET answered with a non-success status, or with a success
\* status and an empty or white-space body, ends the load with no banner node
\* in the document (an existing one is removed) and with no toast added.
C16_FetchFailureTearsDown ==
    C16_NothingToShow =>
        /\ lc = "settled"
        /\ BannerNow = 0
        /\ ~InDoc(doc, last.banner)
        /\ last.added = 0
        /\ last.paths = << >>

\* renderBanner was given a body with markup in it and did not find its
\* sanitized top-level node equal to the mounted banner (last.ins holds the
\* fragment then)
C17_Replacing ==
    /\ last.op = "render"
    /\ last.arg.body.s \notin {"", " "}
    /\ last.ins # {}

\* C17: after renderBanner ran with a non-empty body whose sanitized top-level
\* node differs from the mounted banner, or with no banner mounted, the old
\* banner node is not in the document, the children of the slot are exactly
\* the top-level nodes of the new sanitized fragment, in order, and the new
\* banner is mounted.
C17_RenderReplaces ==
    C17_Replacing =>
        \A e \in last.ins :
            /\ last.banner # NoNode => ~InDoc(doc, last.banner)
            /\ BannerNow # 0
            /\ Ident(doc, BannerNow) = Ident(e.put, FirstElementChild(e.put))
            /\ SlotKids(doc, doc[BannerNow].par) = SlotKids(e.put, 0)

\* a second, different banner has replaced a rendered one in its slot
C17_Witness ==
    /\ C17_Replacing
    /\ last.banner # NoNode
    /\ last.banner[1] > 0
    /\ ~InDoc(doc, last.banner)
    /\ BannerNow # 0
    /\ SlotNow # 0
    /\ doc[BannerNow].par = SlotNow

\* C18: after any number of renderBanner runs, with the attachHandlers run of
\* each, every node of the document has at most one handler bound by the
\* widget (a control wired once is marked and is not wired again).
C18_IdempotentWiring ==
    \A i \in 1..Len(doc) :
        /\ doc[i].nl <= 1
        /\ doc[i].att <=> doc[i].nl = 1

\* a second render has wired a button that two roles resolve to: it holds the
\* accept-all handler alone
C18_Witness ==
    /\ last.op = "render"
    /\ used.renders = MaxRenders
    /\ \E i \in 1..Len(doc) :
          /\ Attr(doc[i], "data-consent-action") = "close"
          /\ Attr(doc[i], "id") = "accept-all"
          /\ doc[i].nl = 1
          /\ doc[i].on = "accept-all"
          /\ doc[i].gen > 1

\* C19: a click on the close control removes the banner node from the
\* document, issues no request, and leaves the cookies as they were.
C19_CloseRecordsNothing ==
    [][(last'.op = "clickClose" /\ used'.clicks = used.clicks + 1) =>
          /\ BannerNow # 0
          /\ ~InDoc(doc', Ident(doc, BannerNow))
          /\ ElementById(doc', cfg.bannerId) = 0
          /\ sent' = sent
          /\ net' = net
          /\ cookie' = cookie]_vars

\* the banner was closed after a granular save had been recorded: the cookie
\* of the save and the two requests sent before are what is left
C19_Witness ==
    /\ last.op = "clickClose"
    /\ last.banner # NoNode
    /\ BannerNow = 0
    /\ C15_Decided
    /\ Len(sent) = 2
    /\ last.posted = 0

\* C20: when a granular-save request completes, whatever the outcome (success
\* with or without message, non-success status, network failure), the banner
\* node mounted at that moment is still the mounted banner afterwards; a
\* non-success response adds no toast.
C20_SaveKeepsBanner ==
    last.op = "accept" =>
        /\ last.banner # NoNode =>
              /\ InDoc(doc, last.banner)
              /\ Ident(doc, BannerNow) = last.banner
        /\ (~last.arg.failed /\ ~last.arg.ok) =>
              /\ last.added = 0
              /\ last.paths = << >>

\* a success response with a message: its toast is shown beside the banner
C20_Witness ==
    /\ last.op = "accept"
    /\ last.arg.ok
    /\ last.arg.body.s = MessageBody
    /\ last.added = 1
    /\ last.banner # NoNode
    /\ Ident(doc, BannerNow) = last.banner

\* a non-success response with a message in its body: no toast, banner mounted
C20_WitnessRefused ==
    /\ last.op = "accept"
    /\ ~last.arg.failed
    /\ ~last.arg.ok
    /\ last.arg.body.s = MessageBody
    /\ last.added = 0
    /\ BannerNow # 0

\* the slug of a checkbox: its data-consent-slug, else its name ("": neither)
C21_Slug(n) ==
    IF Attr(n, "data-consent-slug") # "" THEN Attr(n, "data-consent-slug")
    ELSE Attr(n, "name")

\* C21: the mapping a granular save POSTs has one entry slug -> checked for
\* every checkbox of the mounted banner that has a data-consent-slug or, failing
\* that, a name, and none for a checkbox with neither; also in a banner where
\* some checkboxes carry data-consent-slug and others only a name.
C21_EveryCheckbox ==
    (last.op = "timer" /\ last.banner # NoNode) =>
        sent[Len(sent)].json =
            {<<C21_Slug(doc[i]), doc[i].chk>> :
                i \in {i \in 1..Len(doc) :
                         /\ doc[i].tag = "INPUT"
                         /\ Attr(doc[i], "type") = "checkbox"
                         /\ IsUnder(doc, i, BannerNow)
                         /\ C21_Slug(doc[i]) # ""}}

\* the value m holds for key k ("": none)
C22_Value(m, k) == IF \E p \in m : p[1] = k THEN (CHOOSE p \in m : p[1] = k)[2] ELSE ""

C22_Keys(m) == {p[1] : p \in m}

\* C22: the resulting config takes each top-level key from the override when
\* the override has it and from the defaults otherwise; endpoints is merged per
\* key, an endpoint the override does not name keeping its default URL; an
\* override that is no object, or whose reading throws, gives exactly the
\* defaults; in every case the script goes on loading.
C22_ResolveConfig ==
    (lc = "config" /\ last.op = "config") =>
        LET o == last.arg
            named == IF o.named THEN o.endpoints ELSE {}
        IN  /\ loaded
            /\ o.kind # "object" => cfg = ConfigDefaults
            /\ o.kind = "object" =>
                  /\ C22_Keys(cfg.top) = C22_Keys(ConfigDefaults.top) \cup C22_Keys(o.own)
                  /\ \A k \in C22_Keys(cfg.top) :
                        C22_Value(cfg.top, k) =
                            IF k \in C22_Keys(o.own) THEN C22_Value(o.own, k)
                            ELSE C22_Value(ConfigDefaults.top, k)
                  /\ C22_Keys(cfg.endpoints) = C22_Keys(ConfigDefaults.endpoints)
                  /\ \A k \in C22_Keys(cfg.endpoints) :
                        C22_Value(cfg.endpoints, k) =
                            IF k \in C22_Keys(named) THEN C22_Value(named, k)
                            ELSE C22_Value(ConfigDefaults.endpoints, k)

\* an override naming the banner endpoint and the banner id only
C22_Witness ==
    /\ lc = "config"
    /\ last.op = "config"
    /\ last.arg.kind = "object"
    /\ last.arg.named
    /\ last.arg.endpoints = {<<"banner", "/cmp/banner/">>}
    /\ last.arg.own = {<<"bannerId", "cmp-banner">>}
    /\ C22_Value(cfg.endpoints, "accept") = "/consent/accept/"
    /\ C22_Value(cfg.endpoints, "banner") = "/cmp/banner/"
    /\ C22_Value(cfg.top, "bannerId") = "cmp-banner"
    /\ C22_Value(cfg.top, "toastsId") = "app-toasts"

\* C23: one trigger event whose payload carries a truthy removeConsentBanner
\* and a showToast with html does both: afterwards no banner is mounted and
\* the toast markup is in the document.
C23_BothTriggers ==
    (/\ last.op = "afterOnLoad"
     /\ last.arg.body.s = "{\"removeConsentBanner\":true,\"showToast\":{\"html\":TOAST}}") =>
        /\ BannerNow = 0
        /\ ~InDoc(doc, last.banner)
        /\ \E e \in last.ins : \A k \in 1..Len(e.put) : InDoc(doc, Ident(e.put, k))

\* the controller has finished loadBanner and no banner is mounted
Dismissed == lc = "settled" /\ BannerNow = 0

\* C24: Dismissed is terminal for the page load: once loadBanner has finished
\* and no banner is mounted (a decision was found, the body was empty, or the
\* mounted banner was torn down by accept-all, reject-all, close or a
\* remove-banner trigger), no later event mounts a banner.
C24_DismissedIsTerminal == [](Dismissed => [](BannerNow = 0))

\* the script is included again after the rendered banner was torn down
C24_Witness ==
    /\ Dismissed
    /\ hist.fromGen > 0
    /\ last.op = "eval"
    /\ used.evals = MaxEvals

\* a response to accept-all or reject-all arrives after the banner was torn
\* down by something else
C24_WitnessLate ==
    /\ Dismissed
    /\ hist.fromGen > 0
    /\ last.op \in {"acceptAll", "rejectAll"}
    /\ last.banner = NoNode

\* the banner GETs issued so far
BannerGets == {i \in 1..Len(sent) : sent[i].kind = "banner" /\ sent[i].method = "GET"}

\* C25: at most one banner GET is issued per page load, however often the
\* loader script is evaluated.
C25_OneBannerGet == Cardinality(BannerGets) <= 1

\* the script has been evaluated again after the one GET went out
C25_Witness ==
    /\ Cardinality(BannerGets) = 1
    /\ last.op = "eval"
    /\ used.evals >= 2

\* the granular saves outstanding
Saves == {r \in net : r.kind = "accept"}

\* C26: an outstanding granular save is never cancelled: it stays outstanding
\* until its own response is processed; the timer firing with the banner
\* mounted issues one more request whatever is outstanding; and what a
\* response shows depends on that response alone.
C26_SavesNeverCancelled ==
    [][/\ \A r \in Saves : r \in net' \/ (last'.op = "accept" /\ net' = net \ {r})
       /\ (armed /\ ~armed' /\ BannerNow # 0) =>
             /\ Len(sent') = Len(sent) + 1
             /\ net' = net \cup {[id |-> Len(sent'), kind |-> "accept"]}
       /\ (net' # net /\ last'.op = "accept") =>
             last'.added = Len(SaveToastCalls(last'.arg))]_vars

\* two saves are outstanding at once
C26_Witness == Cardinality(Saves) = 2

\* the response to the second save was processed before the response to the
\* first, and showed its toast
C26_WitnessReordered ==
    /\ Cardinality(Saves) = 1
    /\ last.op = "accept"
    /\ last.added = 1
    /\ \E r \in Saves : r.id < Len(sent)
    /\ sent[Len(sent)].kind = "accept"

\* both responses have been processed and each has shown its toast
C26_WitnessBothToasts ==
    /\ Saves = {}
    /\ hist.posts = 1
    /\ Cardinality({i \in 1..Len(sent) : sent[i].kind = "accept"}) = 2
    /\ last.op = "accept"
    /\ last.added = 1
    /\ Cardinality(ToastEntries(doc, cfg)) = 2

\* the accept-all and reject-all requests outstanding
Actions == {r \in net : r.kind \in {"acceptAll", "rejectAll"}}

\* the POSTs of the accept-all and reject-all flows issued so far
ActionPosts == {i \in 1..Len(sent) : sent[i].kind \in {"acceptAll", "rejectAll"}}

\* C27: each click on accept-all or reject-all issues exactly one POST,
\* whatever is outstanding; nothing else issues one: in particular the
\* processing of a response, failed or not, issues no request.
C27_OnePostPerClick ==
    [][/\ (used'.clicks # used.clicks /\ last'.op \in {"clickAccept", "clickReject"}) =>
             /\ Len(sent') = Len(sent) + 1
             /\ sent'[Len(sent')].method = "POST"
             /\ sent'[Len(sent')].kind =
                   (IF last'.op = "clickAccept" THEN "acceptAll" ELSE "rejectAll")
             /\ net' = net \cup {[id |-> Len(sent'), kind |-> sent'[Len(sent')].kind]}
             /\ \A i \in 1..Len(sent) : sent'[i] = sent[i]
       /\ ~(used'.clicks # used.clicks /\ last'.op \in {"clickAccept", "clickReject"}) =>
             sent' = sent
       /\ Cardinality(ActionPosts) <= used.clicks]_vars

\* a second click before the first response: two POSTs outstanding
C27_Witness ==
    /\ Cardinality(Actions) = 2
    /\ Cardinality(ActionPosts) = 2
    /\ last.op \in {"clickAccept", "clickReject"}

\* the one request failed in the network and was not issued again
C27_WitnessFailed ==
    /\ last.op \in {"acceptAll", "rejectAll"}
    /\ last.arg.failed
    /\ Actions = {}
    /\ Cardinality(ActionPosts) = 1

\* the banner GET is outstanding
Fetching == \E r \in net : r.kind = "banner"

\* C28: the banner GET has no timeout: the controller is in Fetching exactly
\* while the GET is outstanding, and the only step that ends it is the
\* processing of the response (its arrival or its failure); no script
\* evaluation, click, change, timer or server event does, so a response that
\* never comes leaves the controller in Fetching.
C28_NoFetchTimeout ==
    [][/\ (lc = "fetching") <=> Fetching
       /\ (lc = "fetching" /\ lc' # "fetching") =>
             /\ last'.op = "bannerReply"
             /\ \E r \in net : r.kind = "banner" /\ net' = net \ {r}
       /\ (Fetching /\ last'.op # "bannerReply") => Fetching']_vars

\* a server event, a second script evaluation or a change has been handled
\* while the GET is outstanding
C28_Witness ==
    /\ lc = "fetching"
    /\ Fetching
    /\ last.op \in {"afterOnLoad", "removeEvent", "eval", "change"}

\* C29: a network failure of the banner GET leaves no banner and no toast; a
\* network failure of accept-all or reject-all leaves the banner mounted and
\* shows exactly one toast, the failure message; a network failure of a
\* granular save shows no toast.
C29_TransportErrors ==
    /\ (last.op = "bannerReply" /\ last.arg.failed) =>
          /\ BannerNow = 0
          /\ last.added = 0
          /\ last.paths = << >>
    /\ (last.op \in {"acceptAll", "rejectAll"} /\ last.arg.failed) =>
          /\ Ident(doc, BannerNow) = last.banner
          /\ last.added = 1
          /\ last.paths = <<"showToastMessage">>
          /\ \E i \in ToastEntries(doc, cfg) :
                Attr(doc[i], "textContent") = FailedMessage(last.op)
    /\ (last.op = "accept" /\ last.arg.failed) =>
          /\ Ident(doc, BannerNow) = last.banner
          /\ last.added = 0
          /\ last.paths = << >>

\* the last call had something to show
C30_Shows ==
    \/ last.op = "showToastMessage" /\ last.arg.body.s # ""
    \/ /\ last.op = "injectToastFromHtml"
       /\ last.arg.body.s # ""
       /\ ToastNode(last.arg.body.html) # 0

\* C30: every toast entry the loader adds has a removal timer of 3.5 s
\* pending and is eventually removed, timers firing (the handlers show
\* finitely many toasts, so in the end the container is empty for good); a
\* call with something to show adds its entry whether or not the page has a
\* toast container.
C30_SelfRemoval ==
    /\ [](\A i \in ToastEntries(doc, cfg) : doc[i].tmr = TOAST_MS)
    /\ [](C30_Shows => last.added = 1)
    /\ <>[](ToastEntries(doc, cfg) = {})

\* C30, amended: the entry of showToastMessage, and the entry of
\* injectToastFromHtml unless the host's toast library took it, has a removal
\* timer of 3.5 s pending and is eventually removed, timers firing (in the
\* end no entry with a timer is left); an entry the library took has none; a
\* call with something to show adds its entry whether or not the page has a
\* toast container.
C30_SelfRemovalAmended ==
    /\ [](\A i \in ToastEntries(doc, cfg) :
             /\ doc[i].tmr \in {0, TOAST_MS}
             /\ doc[i].tmr = 0 => (host = "present" /\ ~HasAttr(doc[i], "textContent")))
    /\ [](C30_Shows =>
             /\ last.added = 1
             /\ \E i \in ToastEntries(doc, cfg) :
                   /\ doc[i].gen = gen - 1
                   /\ doc[i].tmr = (IF last.op = "injectToastFromHtml" /\ host = "present"
                                    THEN 0 ELSE TOAST_MS))
    /\ <>[](\A i \in ToastEntries(doc, cfg) : doc[i].tmr = 0)

\* a timer has fired and removed its entry from a container the loader made
C30_Witness ==
    /\ last.op = "toastTimer"
    /\ last.added = -1
    /\ ElementById(doc, cfg.toastsId) # 0
    /\ doc[ElementById(doc, cfg.toastsId)].gen > 0

\* the host's library took the entry of injectToastFromHtml: no timer
C30_WitnessHost ==
    /\ host = "present"
    /\ last.op = "injectToastFromHtml"
    /\ last.added = 1
    /\ \E i \in ToastEntries(doc, cfg) : doc[i].gen = gen - 1 /\ doc[i].tmr = 0

\* the last handler called the loader's removeBanner()
C31_TornDown ==
    \/ last.op \in {"loadDecided", "clickClose"}
    \/ last.op \in {"acceptAll", "rejectAll"} /\ ~last.arg.failed
    \/ /\ last.op = "bannerReply"
       /\ ~last.arg.failed /\ last.arg.ok /\ last.arg.readable
       /\ IsBlank(last.arg.body.s)

\* C31: a slot element appears in the document only in a render that puts its
\* fragment there, and after every removeBanner() the document holds no slot
\* element without child nodes.
C31_SlotLifecycle ==
    [][/\ (SlotNow = 0 /\ SlotNow' # 0) =>
             /\ last'.op = "bannerReply"
             /\ last'.ins # {}
             /\ \E e \in last'.ins : \A k \in 1..Len(e.put) :
                   /\ InDoc(doc', Ident(e.put, k))
                   /\ e.put[k].par = 0 =>
                         \E i \in Children(doc', SlotNow') : Ident(doc', i) = Ident(e.put, k)
       /\ C31_TornDown' => (SlotNow' = 0 \/ Children(doc', SlotNow') # {})]_vars

\* accept-all or reject-all completed and the slot the loader had created for
\* the banner went with the banner
C31_Witness ==
    /\ last.op \in {"acceptAll", "rejectAll"}
    /\ ~last.arg.failed
    /\ last.banner # NoNode
    /\ last.kids # << >>
    /\ SlotNow = 0

\* the loader has created the slot in a render
C31_WitnessCreated ==
    /\ last.op = "bannerReply"
    /\ last.ins # {}
    /\ SlotNow # 0
    /\ doc[SlotNow].gen > 0

\* C32: whatever the configuration and the document, the document after the
\* bridge has handled a remove-banner event is the document the loader's
\* removeBanner() would have left.
C32_BridgeTeardown ==
    [][(used'.triggers # used.triggers /\ last'.op = "removeEvent") =>
          doc' = removeBanner(doc, cfg)]_vars

\* node n carries no on* attribute and no javascript: or data:text/html URL
C33_NoHandlers(n) ==
    \A p \in n.attrs :
        /\ p[1] \notin {"onclick", "onerror", "onsubmit"}
        /\ p[1] \in {"href", "src"} =>
              p[2] \notin {"javascript:alert(1)", " JavaScript:alert(1)",
                           "data:text/html,<b>"}

\* C33: the toast element injectToastFromHtml has appended carries no on*
\* attribute and no javascript: or data:text/html URL, nor does any of its
\* descendants, and every descendant's tag is allow-listed.
C33_ToastSanitized ==
    (last.op = "injectToastFromHtml" /\ last.added = 1) =>
        \A i \in ToastEntries(doc, cfg) :
            doc[i].gen = gen - 1 =>
                /\ C33_NoHandlers(doc[i])
                /\ \A j \in Descendants(doc, i) :
                      IsElement(doc[j]) =>
                          /\ C33_NoHandlers(doc[j])
                          /\ doc[j].tag \in {"DIV", "P", "SPAN", "BUTTON", "A", "UL", "LI",
                                             "INPUT", "LABEL", "SECTION", "ARTICLE", "FORM"}

\* C34: a renderBanner run removes from the document only the mounted banner
\* (with what is inside it) and nodes inside the element that carries the
\* slot id; every other node of the page is still there afterwards.
C34_RenderFrame ==
    [][(used'.renders # used.renders /\ last'.op = "render") =>
          \A i \in 1..Len(doc) :
              ~InDoc(doc', Ident(doc, i)) =>
                  \/ BannerNow # 0 /\ IsUnder(doc, i, BannerNow)
                  \/ SlotNow # 0 /\ i # SlotNow /\ IsUnder(doc, i, SlotNow)]_vars

\* C35: after a banner teardown (close button, remove-banner trigger) no node
\* that a render put into the document is left; only the slot element itself
\* may remain.
C35_TeardownComplete ==
    last.op \in {"clickClose", "removeEvent"} =>
        \A i \in 1..Len(doc) : i # SlotNow => doc[i].gen = 0

\* C36: every change of a wired granular checkbox is eventually followed by a
\* run of the debounce timer that issues the granular-save POST.
C36_NoToggleLost ==
    (last.op = "change" /\ last.flag) ~> (last.op = "timer" /\ last.posted = 1)

\* C37: no granular-save POST is issued after an accept-all or reject-all
\* POST of the same page load.
C37_DecisionIsLast ==
    \A i \in ActionPosts : \A j \in 1..Len(sent) : j > i => sent[j].kind # "accept"

\* a remove-banner trigger has just been processed: the event itself, or an
\* HX-Trigger header that carries it
C38_Triggered ==
    \/ last.op = "removeEvent"
    \/ /\ last.op = "afterOnLoad"
       /\ JSON_parse(last.arg.body.s).ok
       /\ JSON_parse(last.arg.body.s).remove

\* C38: once a remove-banner trigger has been processed, no banner is mounted
\* for the rest of the page load: in particular the step that follows the
\* processing of the trigger mounts none.
C38_TriggerIsSticky == [][C38_Triggered => BannerNow' = 0]_vars

\* the controls of the mounted banner, each with the role its handler has
C39_Controls ==
    {<<pickAction(doc, BannerNow, role), role>> :
        role \in {r \in {"accept-all", "reject-all", "close"} :
                    pickAction(doc, BannerNow, r) # 0}}
    \cup {<<i, "change">> : i \in GranularCheckboxes(doc, BannerNow)}

\* C39: when renderBanner has mounted a banner, every accept-all, reject-all
\* and close control and every granular checkbox of it has its listener.
C39_MountedIsWired ==
    (/\ last.op = "render"
     /\ last.ins # {}
     /\ BannerNow # 0
     /\ doc[BannerNow].gen = gen - 1) =>
        \A c \in C39_Controls : Wired(c[1], c[2])

\* loadBanner is scheduled or waits for the banner response
C40_Loading == lc \in {"scheduled", "fetching"}

\* the controller has processed the response to an accept-all / reject-all
\* POST: the banner is gone, or the failure toast is shown
C40_Completed ==
    /\ last.op \in {"acceptAll", "rejectAll"}
    /\ \/ BannerNow = 0
       \/ /\ last.arg.failed
          /\ \E i \in ToastEntries(doc, cfg) :
                Attr(doc[i], "textContent") = FailedMessage(last.op)

\* every accept-all / reject-all POST is answered or fails: again and again
\* none is outstanding. ActionReply is enabled exactly when one is outstanding
\* and removes it, so this is weak fairness of ActionReply.
C40_Responsive == []<>(Actions = {})

\* C40: when every request is answered (or fails) and every timer fires,
\* loadBanner finishes, and every accept-all / reject-all click is followed by
\* the removal of the banner or by the failure toast.
C40_Progress ==
    /\ C40_Loading ~> (lc = "settled")
    /\ C40_Responsive => ((last.op \in {"clickAccept", "clickReject"}) ~> C40_Completed)

C40_Witness == C40_Completed /\ lc = "settled" /\ last.arg.failed

C40_WitnessRemoved == C40_Completed /\ lc = "settled" /\ ~last.arg.failed /\ ~last.arg.ok

====
